---- MODULE Spec2Model ----
(***************************************************************************)
(* Verification model of the umich-balloons telemetry pipeline.            *)
(*                                                                         *)
(* Part I   the telemetry persister: upload_telemetry, the conflict-       *)
(*          resolving upsert over (payload_id, data_time)                  *)
(*          (dashboard/backend/tasks/code/helpers/db.py).                  *)
(* Part II  the viewport subscription registry: ConnectionManager and the  *)
(*          /ws message handler that drives it                             *)
(*          (dashboard/backend/api/app/services/connection_manager.py,     *)
(*           dashboard/backend/api/app/routers/map_data.py,                *)
(*           dashboard/backend/api/app/core/redis_client.py).              *)
(* Part III the queue-driven worker fabric: ingress lists, the watcher,    *)
(*          the protocol worker tasks and the publisher                    *)
(*          (dashboard/backend/api/app/routers/ingress.py,                 *)
(*           dashboard/backend/tasks/code/watcher.py,                      *)
(*           dashboard/backend/tasks/code/jobs/{aprs,iridium,lora}.py,     *)
(*           dashboard/backend/tasks/code/jobs/broadcast.py).              *)
(*                                                                         *)
(* An optional value (SQL NULL, Python None) is the empty sequence <<>>;   *)
(* a present value v is the one-element sequence <<v>>.                    *)
(***************************************************************************)
EXTENDS Integers, Sequences, FiniteSets, TLC

VARIABLES
    telemetry,   \* the rows of public.telemetry
    session,     \* per worker: its call of upload_telemetry / execute_update
    inbox,       \* the packets that arrive for processing
    applied,     \* history: the packets upserted so far, in statement order
    audit,       \* history: per conflict key, what the calls on it returned
    room_connections,      \* ConnectionManager: grid cell -> websockets in it
    socket_subscriptions,  \* ConnectionManager: websocket -> its grid cells
    active_connections,    \* ConnectionManager: the connected websockets
    handler,     \* per websocket: where its websocket_endpoint coroutine stands
    client,      \* per websocket: whether the peer is still there
    listener,    \* pubsub_listener: its call of broadcast_to_room
    torn,        \* history: the websockets on which disconnect has completed
    envelope,      \* the envelopes the ingress routes have accepted
    work_list,     \* per transport: its Redis list of envelopes
    celery_queue,  \* per transport: the tasks sent to its Celery queue
    task,          \* per envelope: where its protocol worker task stands
    raw_messages,  \* the rows of raw_messages
    payloads,      \* the rows of payloads
    publish_queue, \* the publish_telemetry tasks that wait for a run
    channel,       \* the messages published on the real-time channel
    trace,         \* history: the pipeline's steps on each envelope, in order
    get_path,        \* the Redis list of manual path requests
    queue_path_gen,  \* the tasks sent to the Celery queue of the path generator
    mv_payload_path_segments,  \* the materialized view, as last refreshed
    request,       \* the post the ingress routes served last
    response,      \* the reply to it
    cache,         \* the Redis keys telemetry:{payloadId}:{timestamp} and their values
    lookup,        \* per websocket: the locals of the getTelemetry branch
    lora_task,     \* the LoRa payload normalized last, and what became of it
    supabase,      \* the tables telemetry and stations of the legacy backend
    mqtt,          \* the MQTT message handled last, and the calls made for it
    watch_list,    \* per watched Redis list: the raw data that wait on it
    watcher,       \* run_watcher: the locals of its last loop turn
    telemetry_table,  \* legacy backend: the records inserted into telemetry, in order
    ingestion      \* legacy backend: per ingestion handler, where it stands

dbVars == <<telemetry, session, inbox, applied, audit>>

regVars == <<room_connections, socket_subscriptions, active_connections,
             handler, client, listener, torn>>

pipeVars == <<envelope, work_list, celery_queue, task, raw_messages, payloads,
              publish_queue, channel, trace>>

pathVars == <<get_path, queue_path_gen, mv_payload_path_segments>>

ingressVars == <<request, response>>

\* the variables of the parts after Part III
socketVars == <<cache, lookup>>

normVars == <<lora_task>>

legacyVars == <<supabase, mqtt>>

watchVars == <<watch_list, watcher>>

dedupVars == <<telemetry_table, ingestion>>

auxVars == <<pathVars, ingressVars, socketVars, normVars, legacyVars, watchVars,
             dedupVars>>

\* what the actions of a part leave alone besides the variables of the part
pathFrame == <<dbVars, regVars, pipeVars, ingressVars, socketVars, normVars,
              legacyVars, watchVars, dedupVars>>

ingressFrame == <<dbVars, regVars, pathVars, socketVars, normVars, legacyVars,
                 watchVars, dedupVars>>

socketFrame == <<dbVars, pipeVars, pathVars, ingressVars, normVars, legacyVars,
                watchVars, dedupVars>>

normFrame == <<regVars, pipeVars, pathVars, ingressVars, socketVars, legacyVars,
              watchVars, dedupVars>>

legacyFrame == <<dbVars, regVars, pipeVars, pathVars, ingressVars, socketVars,
                normVars, watchVars, dedupVars>>

watchFrame == <<dbVars, regVars, pipeVars, pathVars, ingressVars, socketVars,
               normVars, legacyVars, dedupVars>>

dedupFrame == <<dbVars, regVars, pipeVars, pathVars, ingressVars, socketVars,
               normVars, legacyVars, watchVars>>

vars == <<telemetry, session, inbox, applied, audit,
          room_connections, socket_subscriptions, active_connections,
          handler, client, listener, torn,
          envelope, work_list, celery_queue, task, raw_messages, payloads,
          publish_queue, channel, trace,
          get_path, queue_path_gen, mv_payload_path_segments,
          request, response, cache, lookup, lora_task, supabase, mqtt,
          watch_list, watcher, telemetry_table, ingestion>>

----------------------------------------------------------------------------
(* Bounds of the model *)

NumWorkers == 2

MaxTime == 1

MaxApplied == 3

----------------------------------------------------------------------------
(* Part I: values *)

NULL == <<>>

Some(v) == <<v>>

IsNull(x) == x = <<>>

Workers == 1..NumWorkers

\* readings of the database clock
Times == 0..MaxTime

\* transaction ids the server hands out: never 0
Xids == {1, 2}

PayloadIds == {1}

DataTimes == {1, 2}

\* the packets of one reporting source carry that source's fix and readings
Sources == {1, 2}

Latitude(s) == IF s = 1 THEN 42 ELSE 40

Longitude(s) == IF s = 1 THEN 0 - 83 ELSE 0 - 75

Reading(s) == 500 * s

Accuracies == {NULL, Some(10), Some(50)}

OptionalFields == {"altitude", "speed", "course", "battery", "extra"}

\* which optional readings a packet carries: none, one of them, or all
FieldSets == {{}} \cup {{f} : f \in OptionalFields} \cup {OptionalFields}

Opt(s, F, f) == IF f \in F THEN Some(Reading(s)) ELSE NULL

\* ParsedPacket as upload_telemetry reads it. extra is None (NULL) or a dict;
\* a dict, the empty one included, is sent as JSON text and is not NULL.
Packet(s, acc, F, dt) ==
    [data_time |-> dt,
     latitude  |-> Latitude(s),
     longitude |-> Longitude(s),
     accuracy  |-> acc,
     altitude  |-> Opt(s, F, "altitude"),
     speed     |-> Opt(s, F, "speed"),
     course    |-> Opt(s, F, "course"),
     battery   |-> Opt(s, F, "battery"),
     extra     |-> Opt(s, F, "extra")]

PacketsAt(dt) ==
    {Packet(s, acc, F, dt) : s \in Sources, acc \in Accuracies, F \in FieldSets}

\* the two satellite posts of one fix: a coarse one, then a fine one with altitude
ScenarioPosts(dt) ==
    {Packet(1, Some(50), {}, dt), Packet(2, Some(10), {"altitude"}, dt)}

\* ST_SetSRID(ST_MakePoint(:longitude, :latitude), 4326)
MakePoint(longitude, latitude) == <<longitude, latitude>>

Key(pid, dt) == <<pid, dt>>

Keys == PayloadIds \X DataTimes

RowKey(r) == Key(r.payload_id, r.data_time)

\* the columns the merge rules decide (everything but id, key and last_updated)
Data(r) ==
    [position |-> r.position, accuracy |-> r.accuracy, altitude |-> r.altitude,
     speed |-> r.speed, course |-> r.course, battery |-> r.battery,
     extra |-> r.extra]

----------------------------------------------------------------------------
(* Part I: upload_telemetry *)

\* json.dumps(telemetry.model_dump(mode='json')['extra'])
JsonDumps(v) == <<"json", v>>

\* params: the bind parameters built from the packet
Params(p, payload_id) ==
    [payload_id |-> payload_id,
     data_time  |-> p.data_time,
     latitude   |-> p.latitude,
     longitude  |-> p.longitude,
     accuracy   |-> p.accuracy,
     altitude   |-> p.altitude,
     speed      |-> p.speed,
     course     |-> p.course,
     battery    |-> p.battery,
     extra      |-> IF IsNull(p.extra) THEN NULL ELSE Some(JsonDumps(p.extra[1]))]

\* EXCLUDED: the row proposed for insertion by the VALUES list
Excluded(params) ==
    [payload_id |-> params.payload_id,
     data_time  |-> params.data_time,
     position   |-> MakePoint(params.longitude, params.latitude),
     accuracy   |-> params.accuracy,
     altitude   |-> params.altitude,
     speed      |-> params.speed,
     course     |-> params.course,
     battery    |-> params.battery,
     extra      |-> params.extra]

\* ON CONFLICT (payload_id, data_time): the stored rows the proposed row collides with
Conflict(rows, ex) ==
    {t \in rows : t.payload_id = ex.payload_id /\ t.data_time = ex.data_time}

\* mutant: <= where the statement has <
BetterOrEqualAccuracy(t, ex) ==
    /\ ~IsNull(ex.accuracy)
    /\ ~IsNull(t.accuracy)
    /\ ex.accuracy[1] <= t.accuracy[1]

\* mutant: a stored NULL accuracy counts as worse than any incoming accuracy
BetterThanNullAccuracy(t, ex) ==
    /\ ~IsNull(ex.accuracy)
    /\ (IsNull(t.accuracy) \/ ex.accuracy[1] < t.accuracy[1])

\* WHEN EXCLUDED.accuracy IS NOT NULL
\*      AND (telemetry.accuracy IS NOT NULL AND EXCLUDED.accuracy < telemetry.accuracy)
BetterAccuracy(t, ex) ==
    /\ ~IsNull(ex.accuracy)
    /\ ~IsNull(t.accuracy)
    /\ ex.accuracy[1] < t.accuracy[1]

\* position = CASE WHEN ... THEN EXCLUDED.position ELSE telemetry.position END
SetPosition(t, ex) == IF BetterAccuracy(t, ex) THEN ex.position ELSE t.position

\* mutant: the accuracy column is left out of the SET list
KeepAccuracy(t, ex) == t.accuracy

\* accuracy = CASE WHEN ... THEN EXCLUDED.accuracy ELSE telemetry.accuracy END
SetAccuracy(t, ex) == IF BetterAccuracy(t, ex) THEN ex.accuracy ELSE t.accuracy

\* altitude = CASE WHEN EXCLUDED.altitude IS NOT NULL AND (telemetry.altitude IS NULL) ...
SetAltitude(t, ex) ==
    IF ~IsNull(ex.altitude) /\ IsNull(t.altitude) THEN ex.altitude ELSE t.altitude

SetSpeed(t, ex) ==
    IF ~IsNull(ex.speed) /\ IsNull(t.speed) THEN ex.speed ELSE t.speed

\* mutant: the stored-IS-NULL test is missing
OverwriteCourse(t, ex) == IF ~IsNull(ex.course) THEN ex.course ELSE t.course

SetCourse(t, ex) ==
    IF ~IsNull(ex.course) /\ IsNull(t.course) THEN ex.course ELSE t.course

SetBattery(t, ex) ==
    IF ~IsNull(ex.battery) /\ IsNull(t.battery) THEN ex.battery ELSE t.battery

SetExtra(t, ex) ==
    IF ~IsNull(ex.extra) /\ IsNull(t.extra) THEN ex.extra ELSE t.extra

\* DO UPDATE SET ...: every right-hand side reads the stored row t
DoUpdate(t, ex, clock) ==
    [t EXCEPT !.position = SetPosition(t, ex),
              !.accuracy = SetAccuracy(t, ex),
              !.altitude = SetAltitude(t, ex),
              !.speed = SetSpeed(t, ex),
              !.course = SetCourse(t, ex),
              !.battery = SetBattery(t, ex),
              !.extra = SetExtra(t, ex),
              !.last_updated = clock]

\* the id given to a new row: one no stored row has
NewId(rows) == Cardinality(rows) + 1

\* INSERT INTO public.telemetry (...) VALUES (...): id and last_updated by default
InsertRow(rows, ex, clock) ==
    [id |-> NewId(rows),
     payload_id |-> ex.payload_id, data_time |-> ex.data_time,
     position |-> ex.position, accuracy |-> ex.accuracy,
     altitude |-> ex.altitude, speed |-> ex.speed, course |-> ex.course,
     battery |-> ex.battery, extra |-> ex.extra,
     last_updated |-> clock]

\* mutant: a plain INSERT, no ON CONFLICT clause
InsertOnly(rows, ex, clock) == rows \cup {InsertRow(rows, ex, clock)}

\* the table after INSERT ... ON CONFLICT ... DO UPDATE
Upsert(rows, ex, clock) ==
    IF Conflict(rows, ex) = {}
    THEN rows \cup {InsertRow(rows, ex, clock)}
    ELSE (rows \ Conflict(rows, ex))
         \cup {DoUpdate(t, ex, clock) : t \in Conflict(rows, ex)}

\* mutant: xmax read as 0 on an updated row too
ReturningZeroXmax(rows, ex, xid) ==
    IF Conflict(rows, ex) = {}
    THEN <<NewId(rows), 0>>
    ELSE <<(CHOOSE t \in Conflict(rows, ex) : TRUE).id, 0>>

\* RETURNING id, xmax: xmax is 0 on a row this statement inserted, and the id of
\* the updating transaction on a row it found and updated
Returning(rows, ex, xid) ==
    IF Conflict(rows, ex) = {}
    THEN <<NewId(rows), 0>>
    ELSE <<(CHOOSE t \in Conflict(rows, ex) : TRUE).id, xid>>

\* mutant: the test on xmax is inverted
WasUpdated(result_row) == result_row[2] # 0

\* mutant: every call counts as the insertion
WasInsertedAlways(result_row) == TRUE

\* was_inserted = (xmax_val == 0)
WasInserted(result_row) == result_row[2] = 0

\* no stored last_updated is later than clock: time does not run backwards
ClockReads(rows) == {c \in Times : \A t \in rows : t.last_updated <= c}

NoRow == <<0, 0>>

NoReturn == <<0, FALSE>>

Idle == [pc |-> "idle", key |-> <<0, 0>>, result_row |-> NoRow, ret |-> NoReturn]

NoAudit == [inserted |-> 0, ids |-> {}]

\* upload_telemetry up to the fetch of the RETURNING row: execute_update runs the
\* statement inside its transaction. The statement waits while another open
\* transaction holds the row of the same key.
Execute(w, payload_id, p) ==
    LET ex == Excluded(Params(p, payload_id))
        k == Key(payload_id, p.data_time)
    IN /\ session[w].pc = "idle"
       /\ \A v \in Workers : session[v].pc = "in_txn" => session[v].key # k
       /\ \E xid \in Xids :
            session' = [session EXCEPT ![w] =
                          [pc |-> "in_txn", key |-> k,
                           result_row |-> Returning(telemetry, ex, xid),
                           ret |-> NoReturn]]
       /\ \E clock \in ClockReads(telemetry) :
            telemetry' = Upsert(telemetry, ex, clock)
       /\ UNCHANGED <<inbox, audit>>
       /\ UNCHANGED <<regVars, pipeVars, auxVars>>

\* the transaction commits; upload_telemetry returns (telemetry_id, was_inserted),
\* or raises when the statement returned no row
Return(w) ==
    LET rr == session[w].result_row
        k == session[w].key
    IN /\ session[w].pc = "in_txn"
       /\ IF rr = NoRow
          THEN /\ session' = [session EXCEPT ![w] =
                                [pc |-> "raised", key |-> k, result_row |-> rr,
                                 ret |-> NoReturn]]
               /\ UNCHANGED audit
          ELSE /\ session' = [session EXCEPT ![w] =
                                [pc |-> "idle", key |-> k, result_row |-> rr,
                                 ret |-> <<rr[1], WasInserted(rr)>>]]
               /\ audit' = [audit EXCEPT
                              ![k].inserted = IF WasInserted(rr) THEN @ + 1 ELSE @,
                              ![k].ids = @ \cup {rr[1]}]
       /\ UNCHANGED <<telemetry, inbox, applied>>
       /\ UNCHANGED <<regVars, pipeVars, auxVars>>

----------------------------------------------------------------------------
(* Part II: the viewport subscription registry (ConnectionManager), the /ws
   handler that drives it and the pub/sub listener that broadcasts through it.
   One step of the model is one run of a coroutine between two suspension
   points: connect, disconnect and update_subscriptions (with the add_to_room
   and remove_from_room calls it awaits, which never suspend) are atomic;
   websocket.send_text, websocket.receive_text and the database queries are
   where other coroutines get to run. *)

Conns == {1, 2}

Cells == {1, 2}

\* grid.get_cells_for_bbox: the set of cells covering a viewport
Viewports == SUBSET Cells

\* the three containers of the manager as one value
Registry ==
    [room_connections |-> room_connections,
     socket_subscriptions |-> socket_subscriptions,
     active_connections |-> active_connections]

\* dict.get(websocket, set())
SubscriptionsOf(subs, ws) == IF ws \in DOMAIN subs THEN subs[ws] ELSE {}

\* del d[k]
Del(d, k) == [x \in DOMAIN d \ {k} |-> d[x]]

\* d[k] = v
Put(d, k, v) == [x \in DOMAIN d \cup {k} |-> IF x = k THEN v ELSE d[x]]

\* room_connections[cell_id].discard(websocket), then the empty room is deleted
Discard(rooms, ws, cell_id) ==
    IF cell_id \notin DOMAIN rooms
    THEN rooms
    ELSE IF rooms[cell_id] \ {ws} = {}
         THEN Del(rooms, cell_id)
         ELSE [rooms EXCEPT ![cell_id] = @ \ {ws}]

\* add_to_room
AddToRoom(reg, ws, cell_id) ==
    [reg EXCEPT
       !.room_connections =
           IF cell_id \in DOMAIN @
           THEN [@ EXCEPT ![cell_id] = @ \cup {ws}]
           ELSE Put(@, cell_id, {ws}),
       !.socket_subscriptions =
           IF ws \in DOMAIN @ THEN [@ EXCEPT ![ws] = @ \cup {cell_id}] ELSE @]

\* mutant: the room that became empty is not deleted
RemoveFromRoomKeepEmpty(reg, ws, cell_id) ==
    [reg EXCEPT
       !.room_connections =
           IF cell_id \in DOMAIN @ THEN [@ EXCEPT ![cell_id] = @ \ {ws}] ELSE @,
       !.socket_subscriptions =
           IF ws \in DOMAIN @ THEN [@ EXCEPT ![ws] = @ \ {cell_id}] ELSE @]

\* remove_from_room
RemoveFromRoom(reg, ws, cell_id) ==
    [reg EXCEPT
       !.room_connections = Discard(@, ws, cell_id),
       !.socket_subscriptions =
           IF ws \in DOMAIN @ THEN [@ EXCEPT ![ws] = @ \ {cell_id}] ELSE @]

RECURSIVE LeaveAll(_, _, _)
\* for cell_id in cells_to_leave: await self.remove_from_room(websocket, cell_id)
LeaveAll(reg, ws, cells) ==
    IF cells = {}
    THEN reg
    ELSE LET cell_id == CHOOSE x \in cells : TRUE
         IN LeaveAll(RemoveFromRoom(reg, ws, cell_id), ws, cells \ {cell_id})

RECURSIVE JoinAll(_, _, _)
\* for cell_id in cells_to_join: await self.add_to_room(websocket, cell_id)
JoinAll(reg, ws, cells) ==
    IF cells = {}
    THEN reg
    ELSE LET cell_id == CHOOSE x \in cells : TRUE
         IN JoinAll(AddToRoom(reg, ws, cell_id), ws, cells \ {cell_id})

\* update_subscriptions: the registry it leaves and the pair it returns
UpdateSubscriptions(reg, ws, new_cells) ==
    LET current_cells == SubscriptionsOf(reg.socket_subscriptions, ws)
        cells_to_leave == current_cells \ new_cells
        cells_to_join == new_cells \ current_cells
        after == JoinAll(LeaveAll(reg, ws, cells_to_leave), ws, cells_to_join)
    IN [reg |-> [after EXCEPT !.socket_subscriptions = Put(@, ws, new_cells)],
        ret |-> <<cells_to_join, cells_to_leave>>]

\* active_connections.remove(websocket) raises ValueError when it is not there
DisconnectRaises(reg, ws) == ws \notin reg.active_connections

RECURSIVE DiscardAll(_, _, _)
\* for cell_id in current_cells: discard from the room, delete it when empty
DiscardAll(rooms, ws, cells) ==
    IF cells = {}
    THEN rooms
    ELSE LET cell_id == CHOOSE x \in cells : TRUE
         IN DiscardAll(Discard(rooms, ws, cell_id), ws, cells \ {cell_id})

\* mutant: the rooms are left as they are
DisconnectKeepRooms(reg, ws) ==
    [room_connections |-> reg.room_connections,
     socket_subscriptions |-> Del(reg.socket_subscriptions, ws),
     active_connections |-> reg.active_connections \ {ws}]

\* disconnect, when it does not raise
Disconnect(reg, ws) ==
    [room_connections |->
         DiscardAll(reg.room_connections, ws,
                    SubscriptionsOf(reg.socket_subscriptions, ws)),
     socket_subscriptions |-> Del(reg.socket_subscriptions, ws),
     active_connections |-> reg.active_connections \ {ws}]

RECURSIVE DisconnectAll(_, _)
DisconnectAll(reg, sockets) ==
    IF sockets = {}
    THEN reg
    ELSE LET ws == CHOOSE x \in sockets : TRUE
         IN DisconnectAll(Disconnect(reg, ws), sockets \ {ws})

SetRegistry(reg) ==
    /\ room_connections' = reg.room_connections
    /\ socket_subscriptions' = reg.socket_subscriptions
    /\ active_connections' = reg.active_connections

regState == <<room_connections, socket_subscriptions, active_connections>>

\* websocket.send_text raises when the peer is gone
SendFails(ws) == client[ws] = "gone"

\* the handler's locals at a point of the endpoint where no request is in hand
Cleared(pc) == [pc |-> pc, request |-> "none", cells |-> {}, response |-> "none"]

\* await websocket.receive_text()
Waiting == Cleared("receive")

At(ws, pc) == [handler EXCEPT ![ws] = Cleared(pc)]

\* manager.connect: accept, append, socket_subscriptions[websocket] = set()
Connect(ws) ==
    /\ handler[ws].pc = "new"
    /\ handler' = At(ws, "receive")
    /\ client' = [client EXCEPT ![ws] = "open"]
    /\ active_connections' = active_connections \cup {ws}
    /\ socket_subscriptions' = Put(socket_subscriptions, ws, {})
    /\ UNCHANGED <<room_connections, listener, torn>>
    /\ UNCHANGED <<dbVars, pipeVars, auxVars>>

\* the peer goes away while its handler is running
ClientLeaves(ws) ==
    /\ handler[ws].pc \in {"receive", "fetch_initial", "fetch_catchup", "reply",
                         "fetch_telemetry", "reply_break"}
    /\ client[ws] = "open"
    /\ client' = [client EXCEPT ![ws] = "gone"]
    /\ UNCHANGED <<regState, handler, listener, torn>>
    /\ UNCHANGED <<dbVars, pipeVars, auxVars>>

\* getInitialData received: the cells are computed and the handler suspends in
\* fetch_historical_data, before update_subscriptions is called
ReceiveGetInitialData(ws, cells) ==
    /\ handler[ws].pc = "receive"
    /\ client[ws] = "open"
    /\ handler' = [handler EXCEPT ![ws] =
                      [pc |-> "fetch_initial", request |-> "getInitialData",
                       cells |-> cells, response |-> "none"]]
    /\ UNCHANGED <<regState, client, listener, torn>>
    /\ UNCHANGED <<dbVars, pipeVars, auxVars>>

\* the query returns: update_subscriptions, then the reply is sent; or the query
\* raises and the error reply is sent
FetchInitialReturns(ws, ok) ==
    /\ handler[ws].pc = "fetch_initial"
    /\ handler' = [handler EXCEPT
                      ![ws].pc = "reply",
                      ![ws].response = IF ok THEN "initialPathSegments" ELSE "error"]
    /\ IF ok
       THEN SetRegistry(UpdateSubscriptions(Registry, ws, handler[ws].cells).reg)
       ELSE UNCHANGED regState
    /\ UNCHANGED <<client, listener, torn>>
    /\ UNCHANGED <<dbVars, pipeVars, auxVars>>

\* mutant: the catch-up query is made whether or not cells were joined
ReceiveUpdateViewportAlwaysFetch(ws, new_cells) ==
    LET call == UpdateSubscriptions(Registry, ws, new_cells)
    IN /\ handler[ws].pc = "receive"
       /\ client[ws] = "open"
       /\ SetRegistry(call.reg)
       /\ handler' = [handler EXCEPT ![ws] =
                         [pc |-> "fetch_catchup", request |-> "updateViewport",
                          cells |-> new_cells, response |-> "none"]]
       /\ UNCHANGED <<client, listener, torn>>
       /\ UNCHANGED <<dbVars, pipeVars, auxVars>>

\* updateViewport received: update_subscriptions at once, then the catch-up
\* query when cells were joined
ReceiveUpdateViewport(ws, new_cells) ==
    LET call == UpdateSubscriptions(Registry, ws, new_cells)
    IN /\ handler[ws].pc = "receive"
       /\ client[ws] = "open"
       /\ SetRegistry(call.reg)
       /\ handler' = [handler EXCEPT ![ws] =
                         IF call.ret[1] # {}
                         THEN [pc |-> "fetch_catchup", request |-> "updateViewport",
                               cells |-> new_cells, response |-> "none"]
                         ELSE Waiting]
       /\ UNCHANGED <<client, listener, torn>>
       /\ UNCHANGED <<dbVars, pipeVars, auxVars>>

\* the catch-up query returns, and catchUpPathSegments is the reply, or it
\* raises, and error is the reply
FetchCatchupReturns(ws, ok) ==
    /\ handler[ws].pc = "fetch_catchup"
    /\ handler' = [handler EXCEPT
                      ![ws].pc = "reply",
                      ![ws].response = IF ok THEN "catchUpPathSegments" ELSE "error"]
    /\ UNCHANGED <<regState, client, listener, torn>>
    /\ UNCHANGED <<dbVars, pipeVars, auxVars>>

\* send_personal_message: when send_text raises, disconnect is called; when
\* that raises too the exception leaves the loop and ends in the finally clause,
\* whose disconnect raises again
Reply(ws) ==
    /\ handler[ws].pc = "reply"
    /\ IF ~SendFails(ws)
       THEN /\ handler' = At(ws, "receive")
            /\ UNCHANGED <<regState, torn>>
       ELSE IF DisconnectRaises(Registry, ws)
            THEN /\ handler' = At(ws, "crashed")
                 /\ UNCHANGED <<regState, torn>>
            ELSE /\ handler' = At(ws, "receive")
                 /\ SetRegistry(Disconnect(Registry, ws))
                 /\ torn' = torn \cup {ws}
    /\ UNCHANGED <<client, listener>>
    /\ UNCHANGED <<dbVars, pipeVars, auxVars>>

\* receive_text raises WebSocketDisconnect; finally: manager.disconnect
ReceiveDisconnect(ws) ==
    /\ handler[ws].pc = "receive"
    /\ client[ws] = "gone"
    /\ IF DisconnectRaises(Registry, ws)
       THEN /\ handler' = At(ws, "crashed")
            /\ UNCHANGED <<regState, torn>>
       ELSE /\ handler' = At(ws, "closed")
            /\ SetRegistry(Disconnect(Registry, ws))
            /\ torn' = torn \cup {ws}
    /\ UNCHANGED <<client, listener>>
    /\ UNCHANGED <<dbVars, pipeVars, auxVars>>

Listening == [pc |-> "listening", cell_id |-> 0, sockets_in_room |-> {},
              disconnected_sockets |-> {}, snapshot |-> {}, delivered |-> {}]

\* mutant: the message goes to every active connection
BroadcastToAll(cell_id) ==
    /\ listener.pc = "listening"
    /\ listener' = [pc |-> "sending", cell_id |-> cell_id,
                    sockets_in_room |-> active_connections,
                    disconnected_sockets |-> {},
                    snapshot |-> active_connections,
                    delivered |-> {}]
    /\ UNCHANGED <<regState, handler, client, torn>>
    /\ UNCHANGED <<dbVars, pipeVars, auxVars>>

\* a position event of a cell arrives: broadcast_to_room copies the room
BroadcastToRoom(cell_id) ==
    /\ listener.pc = "listening"
    /\ IF cell_id \in DOMAIN room_connections
       THEN listener' = [pc |-> "sending", cell_id |-> cell_id,
                         sockets_in_room |-> room_connections[cell_id],
                         disconnected_sockets |-> {},
                         snapshot |-> room_connections[cell_id],
                         delivered |-> {}]
       ELSE listener' = [Listening EXCEPT !.cell_id = cell_id]
    /\ UNCHANGED <<regState, handler, client, torn>>
    /\ UNCHANGED <<dbVars, pipeVars, auxVars>>

\* await websocket.send_text(message) for the next socket of the copy
BroadcastSend(ws) ==
    /\ listener.pc = "sending"
    /\ ws \in listener.sockets_in_room
    /\ listener' = [listener EXCEPT
                      !.sockets_in_room = @ \ {ws},
                      !.disconnected_sockets = IF SendFails(ws) THEN @ \cup {ws} ELSE @,
                      !.delivered = IF SendFails(ws) THEN @ ELSE @ \cup {ws}]
    /\ UNCHANGED <<regState, handler, client, torn>>
    /\ UNCHANGED <<dbVars, pipeVars, auxVars>>

\* after the iteration: disconnect for each marked socket; a ValueError raised
\* by one of them ends the loop, the sockets after it are left as they are
BroadcastCleanup ==
    /\ listener.pc = "sending"
    /\ listener.sockets_in_room = {}
    /\ \E done \in SUBSET (listener.disconnected_sockets \cap active_connections) :
         /\ listener.disconnected_sockets \subseteq active_connections
              => done = listener.disconnected_sockets
         /\ SetRegistry(DisconnectAll(Registry, done))
         /\ torn' = torn \cup done
    /\ listener' = [Listening EXCEPT !.cell_id = listener.cell_id]
    /\ UNCHANGED <<handler, client>>
    /\ UNCHANGED <<dbVars, pipeVars, auxVars>>

InitRegistry ==
    /\ room_connections = <<>>
    /\ socket_subscriptions = <<>>
    /\ active_connections = {}
    /\ handler = [ws \in Conns |-> Cleared("new")]
    /\ client = [ws \in Conns |-> "none"]
    /\ listener = Listening
    /\ torn = {}

----------------------------------------------------------------------------
(* Part III: the queue-driven worker fabric. The ingress routes append an
   envelope to the Redis list of its transport; the watcher pops the lists and
   sends each envelope to the Celery queue of its transport; a protocol worker
   task (process_aprs, process_iridium, process_lora) persists the raw
   message, decodes it, resolves the payload, upserts the telemetry and
   updates the raw message; publish_telemetry publishes a position event.
   One step of a task is its run up to and including one database statement:
   every statement is its own transaction, and the tasks of a worker pool run
   side by side. *)

\* WATCH_MAP: the protocol lists, in the order blpop is given them
WatchOrder == <<"aprs", "iridium", "lora">>

Transports == {WatchOrder[i] : i \in DOMAIN WatchOrder}

Envelopes == {1, 2}

Callsigns == {1, 2}

\* (data_time of the packet, timestamp of the raw message): a packet stamped
\* before its message, one stamped after it, and one whose message has a
\* timestamp that does not compare with a data_time (None, or a datetime
\* without a timezone beside one with a timezone), written 0
Stamps == {<<1, 2>>, <<2, 1>>, <<2, 0>>}

\* parsed_payload.data_time > raw_message.timestamp does not raise TypeError
Comparable(v) == v.timestamp # 0

Envelope(transport, kind, callsign, stamp) ==
    [transport |-> transport, kind |-> kind, callsign |-> callsign,
     data_time |-> stamp[1], timestamp |-> stamp[2]]

NoEnvelope == Envelope("none", "none", 0, <<0, 0>>)

\* what an ingress route can put on a list: a good envelope, one that is not a
\* RawMessage ("malformed"), one whose payload does not decode into a
\* ParsedPacket ("undecodable")
EnvelopeValues ==
    {Envelope(t, "good", c, st) : t \in Transports, c \in Callsigns, st \in Stamps}
    \cup {Envelope(t, k, 1, <<1, 2>>) : t \in Transports,
                                        k \in {"malformed", "undecodable"}}

NoTask ==
    [pc |-> "absent", error |-> "none", raw_msg_id |-> 0, payload_id |-> 0,
     data_time |-> 0, telemetry_id |-> 0, was_inserted |-> FALSE, runs |-> 0]

At3(e, pc) == [task EXCEPT ![e].pc = pc]

Started(e) == Append(trace, <<"started", e>>)

Finished(tr, e) == Append(tr, <<"finished", e>>)

\* queue_aprs_message, queue_iridium_message, queue_lora_message:
\* _push_to_redis_queue appends the envelope at the tail of its list
Ingress(e, v) ==
    /\ envelope[e] = NoEnvelope
    /\ \A d \in Envelopes : d < e => envelope[d] # NoEnvelope
    /\ envelope' = [envelope EXCEPT ![e] = v]
    /\ work_list' = [work_list EXCEPT ![v.transport] = Append(@, e)]
    /\ task' = At3(e, "listed")
    /\ UNCHANGED <<celery_queue, raw_messages, payloads, publish_queue, channel,
                   trace>>
    /\ UNCHANGED <<dbVars, regVars, auxVars>>

\* blpop(lists_to_watch): the first list, in the order given, that has an element
SourceList ==
    WatchOrder[CHOOSE i \in DOMAIN WatchOrder :
                 /\ work_list[WatchOrder[i]] # <<>>
                 /\ \A j \in DOMAIN WatchOrder :
                      j < i => work_list[WatchOrder[j]] = <<>>]

\* mutant: the watcher runs the task itself and waits for it
WatcherIdleSync == \A e \in Envelopes : task[e].pc \in {"absent", "listed", "lost", "done", "failed"}

\* the watcher waits for nothing but the lists
WatcherIdle == TRUE

\* mutant: the element is pushed back at the head of the Celery queue
SendTaskAtHead(queue, e) == <<e>> \o queue

\* celery_app.send_task(task_name, args=[raw_data], queue=queue_name)
SendTask(queue, e) == Append(queue, e)

\* run_watcher, one turn of its loop: pop the head of a list and send it to the
\* Celery queue of that list. When send_task raises, the loop logs the error
\* and goes on: the popped envelope is in no list and in no queue.
WatcherDispatch ==
    /\ \E t \in Transports : work_list[t] # <<>>
    /\ WatcherIdle
    /\ LET source_list == SourceList
           e == Head(work_list[source_list])
       IN /\ work_list' = [work_list EXCEPT ![source_list] = Tail(@)]
          /\ \E sent \in BOOLEAN :
               IF sent
               THEN /\ celery_queue' = [celery_queue EXCEPT
                                          ![source_list] = SendTask(@, e)]
                    /\ task' = At3(e, "queued")
                    /\ trace' = Append(trace, <<"dispatched", e>>)
               ELSE /\ task' = At3(e, "lost")
                    /\ UNCHANGED <<celery_queue, trace>>
    /\ UNCHANGED <<envelope, raw_messages, payloads, publish_queue, channel>>
    /\ UNCHANGED <<dbVars, regVars, auxVars>>

\* the id given to a new row of raw_messages or payloads
NextId(rows) == Cardinality(rows) + 1

\* upload_raw_message lets ingest_method default to raw_message.ingest_method;
\* process_iridium passes ingest_method='HTTP', the other two pass none
PassesIngestMethod(transport) == transport = "iridium"

\* process_aprs / process_iridium / process_lora from the start to the return
\* of upload_raw_message. RawMessage declares no ingest_method field: reading
\* it raises AttributeError unless the object carries the attribute.
TaskStart(e) ==
    LET v == envelope[e]
        t == v.transport
        run == [task EXCEPT ![e].runs = @ + 1]
        Fails(error) ==
            /\ task' = [run EXCEPT ![e].pc = "failed", ![e].error = error]
            /\ trace' = Finished(Started(e), e)
            /\ UNCHANGED raw_messages
    IN /\ task[e].pc = "queued"
       /\ celery_queue[t] # <<>>
       /\ Head(celery_queue[t]) = e
       /\ celery_queue' = [celery_queue EXCEPT ![t] = Tail(@)]
       /\ \E has_ingest_method \in BOOLEAN, up \in BOOLEAN :
            IF v.kind = "malformed" THEN Fails("ValidationError")
            ELSE IF ~PassesIngestMethod(t) /\ ~has_ingest_method
            THEN Fails("AttributeError")
            ELSE IF ~up THEN Fails("SQLAlchemyError")
            ELSE /\ raw_messages' = raw_messages \cup
                      {[id |-> NextId(raw_messages), raw_data |-> e,
                        telemetry_id |-> NULL]}
                 /\ task' = [run EXCEPT ![e].pc = "persisted",
                                        ![e].raw_msg_id = NextId(raw_messages)]
                 /\ trace' = Started(e)
       /\ UNCHANGED <<envelope, work_list, payloads, publish_queue, channel>>
       /\ UNCHANGED <<telemetry, session, inbox, applied, audit>>
       /\ UNCHANGED <<regVars, auxVars>>

\* an exception leaves the task function: the task is over
TaskFails(e, error) ==
    /\ task' = [task EXCEPT ![e].pc = "failed", ![e].error = error]
    /\ trace' = Finished(trace, e)

\* the transport's decoding and process_json_msg (which returns None for a
\* payload it cannot validate, so that the read of .callsign raises), then the
\* SELECT of get_payload_id
Decode(e) ==
    LET v == envelope[e]
        result == {r \in payloads : r.callsign = v.callsign}
    IN /\ task[e].pc = "persisted"
       /\ \E up \in BOOLEAN :
            IF v.kind = "undecodable" THEN TaskFails(e, "DecodeError")
            ELSE IF ~up THEN TaskFails(e, "SQLAlchemyError")
            ELSE IF result # {}
            THEN /\ task' = [task EXCEPT
                               ![e].pc = "upload",
                               ![e].payload_id = (CHOOSE r \in result : TRUE).id]
                 /\ UNCHANGED trace
            ELSE /\ task' = At3(e, "insert_payload")
                 /\ UNCHANGED trace
       /\ UNCHANGED <<envelope, work_list, celery_queue, raw_messages, payloads,
                      publish_queue, channel>>
       /\ UNCHANGED <<dbVars, regVars, auxVars>>

\* INSERT INTO payloads (callsign) VALUES (:callsign) RETURNING id. The schema
\* is not part of the source tree: where callsign is unique the statement is
\* rejected when the callsign is stored, where it is not a second row is added.
InsertPayloadRow(rows, callsign, unique) ==
    IF unique /\ \E r \in rows : r.callsign = callsign
    THEN [rows |-> rows, ok |-> FALSE, id |-> 0]
    ELSE [rows |-> rows \cup {[id |-> NextId(rows), callsign |-> callsign]},
          ok |-> TRUE, id |-> NextId(rows)]

\* get_payload_id after a SELECT that found no row: the INSERT, a statement and
\* a transaction of its own
InsertPayload(e) ==
    /\ task[e].pc = "insert_payload"
    /\ \E up \in BOOLEAN, unique \in BOOLEAN :
         LET ins == InsertPayloadRow(payloads, envelope[e].callsign, unique)
         IN IF ~up
            THEN TaskFails(e, "SQLAlchemyError") /\ UNCHANGED payloads
            ELSE IF ~ins.ok
            THEN TaskFails(e, "IntegrityError") /\ UNCHANGED payloads
            ELSE /\ payloads' = ins.rows
                 /\ task' = [task EXCEPT ![e].pc = "upload",
                                         ![e].payload_id = ins.id]
                 /\ UNCHANGED trace
    /\ UNCHANGED <<envelope, work_list, celery_queue, raw_messages,
                   publish_queue, channel>>
    /\ UNCHANGED <<dbVars, regVars, auxVars>>

\* mutant: the data_time of the packet is kept as it came
KeepDataTime(v) == v.data_time

\* try:
\*     if parsed_payload.data_time > raw_message.timestamp:
\*         parsed_payload.data_time = raw_message.timestamp
\* except TypeError: the error is logged and data_time is left as it is
ClampDataTime(v) ==
    IF Comparable(v) /\ v.data_time > v.timestamp THEN v.timestamp ELSE v.data_time

\* the ParsedPacket of a good envelope, as upload_telemetry reads it
ParsedPayload(v) == Packet(v.callsign, NULL, {}, ClampDataTime(v))

\* update_packet
UpdatePacket(telemetry_id, payload_id, p) ==
    [telemetry_id |-> telemetry_id, payload_id |-> payload_id,
     lon |-> p.longitude, lat |-> p.latitude, ts |-> p.data_time]

\* process_lora calls publish_telemetry.delay(update_packet) when was_inserted;
\* process_aprs and process_iridium log the insertion and publish nothing
Publishes(transport) == transport = "lora"

\* the worker from the data_time check to the queuing of the event: the upsert
\* is upload_telemetry of Part I, run alone in its transaction. ParsedPacket
\* declares no data_time field: reading it raises AttributeError (which the
\* except TypeError clause lets through) unless the object carries the attribute.
UploadTelemetry(e) ==
    LET v == envelope[e]
        p == ParsedPayload(v)
        payload_id == task[e].payload_id
        ex == Excluded(Params(p, payload_id))
    IN /\ task[e].pc = "upload"
       /\ \E has_data_time \in BOOLEAN, up \in BOOLEAN :
            IF ~has_data_time
            THEN /\ TaskFails(e, "AttributeError")
                 /\ UNCHANGED <<telemetry, publish_queue>>
            ELSE IF ~up
            THEN /\ TaskFails(e, "SQLAlchemyError")
                 /\ UNCHANGED <<telemetry, publish_queue>>
            ELSE \E xid \in Xids, clock \in ClockReads(telemetry) :
                   LET result_row == Returning(telemetry, ex, xid)
                       telemetry_id == result_row[1]
                       was_inserted == WasInserted(result_row)
                   IN /\ telemetry' = Upsert(telemetry, ex, clock)
                      /\ task' = [task EXCEPT ![e].pc = "update_raw",
                                    ![e].data_time = p.data_time,
                                    ![e].telemetry_id = telemetry_id,
                                    ![e].was_inserted = was_inserted]
                      /\ publish_queue' =
                           IF was_inserted /\ Publishes(v.transport)
                           THEN Append(publish_queue,
                                       [result_data |-> UpdatePacket(telemetry_id,
                                                                     payload_id, p),
                                        retries |-> 0])
                           ELSE publish_queue
                      /\ UNCHANGED trace
       /\ UNCHANGED <<envelope, work_list, celery_queue, raw_messages, payloads,
                      channel>>
       /\ UNCHANGED <<session, inbox, applied, audit>>
       /\ UNCHANGED <<regVars, auxVars>>

\* UPDATE raw_messages SET source_id, telemetry_id, sources WHERE id = :raw_msg_id
UpdateRawMessage(e) ==
    /\ task[e].pc = "update_raw"
    /\ \E up \in BOOLEAN :
         IF ~up
         THEN TaskFails(e, "SQLAlchemyError") /\ UNCHANGED raw_messages
         ELSE /\ raw_messages' =
                   {IF r.id = task[e].raw_msg_id
                    THEN [r EXCEPT !.telemetry_id = Some(task[e].telemetry_id)]
                    ELSE r : r \in raw_messages}
              /\ task' = At3(e, "done")
              /\ trace' = Finished(trace, e)
    /\ UNCHANGED <<envelope, work_list, celery_queue, payloads, publish_queue,
                   channel>>
    /\ UNCHANGED <<dbVars, regVars, auxVars>>

\* Task.max_retries as Celery sets it when the task and the retry call give none
MaxRetries == 3

\* h3.latlng_to_cell(lat, lon, H3_RESOLUTION)
LatLngToCell(lat, lon) == <<"cell", lat, lon>>

\* publish_telemetry: publish the event, with its grid cell, on
\* "realtime-updates"; on any exception self.retry(countdown=15) sends the task
\* again until max_retries is used up
PublishTelemetry ==
    /\ publish_queue # <<>>
    /\ LET m == Head(publish_queue)
           result_data == m.result_data
       IN \E published \in BOOLEAN :
            IF published
            THEN /\ channel' = Append(channel,
                                      [result_data |-> result_data,
                                       grid_cell_id |-> LatLngToCell(result_data.lat,
                                                                     result_data.lon)])
                 /\ publish_queue' = Tail(publish_queue)
            ELSE /\ publish_queue' =
                      IF m.retries < MaxRetries
                      THEN Append(Tail(publish_queue),
                                  [m EXCEPT !.retries = @ + 1])
                      ELSE Tail(publish_queue)
                 /\ UNCHANGED channel
    /\ UNCHANGED <<envelope, work_list, celery_queue, task, raw_messages,
                   payloads, trace>>
    /\ UNCHANGED <<dbVars, regVars, auxVars>>

InitPipeline ==
    /\ envelope = [e \in Envelopes |-> NoEnvelope]
    /\ work_list = [t \in Transports |-> <<>>]
    /\ celery_queue = [t \in Transports |-> <<>>]
    /\ task = [e \in Envelopes |-> NoTask]
    /\ raw_messages = {}
    /\ payloads = {}
    /\ publish_queue = <<>>
    /\ channel = <<>>
    /\ trace = <<>>

----------------------------------------------------------------------------
(* Part IV: the path generator. Celery beat sends run_scheduled_path_generation
   to queue_path_gen on its schedule; an envelope pushed on the get_path list
   is popped by the watcher and sent to handle_manual_path_request on the same
   queue. *)

MaxPending == 2

\* mv_payload_path_segments over the stored telemetry: per payload the points
\* of its path in time
PathSegments(rows) == {<<t.payload_id, t.data_time, t.position>> : t \in rows}

\* beat_schedule 'schedule-path-generator': crontab(hour='3', minute='15')
BeatSchedulePathGenerator ==
    /\ Len(queue_path_gen) < MaxPending
    /\ queue_path_gen' = Append(queue_path_gen, "run_scheduled_path_generation")
    /\ UNCHANGED <<get_path, mv_payload_path_segments>>
    /\ UNCHANGED pathFrame

\* a manual trigger: an envelope {sender, payload, timestamp} is pushed on get_path
PushGetPath ==
    /\ Len(get_path) < MaxPending
    /\ get_path' = Append(get_path, "envelope")
    /\ UNCHANGED <<queue_path_gen, mv_payload_path_segments>>
    /\ UNCHANGED pathFrame

\* run_watcher, one turn of its loop on the get_path list:
\* WATCH_MAP['get_path'] = (handle_manual_path_request, 'queue_path_gen')
WatcherDispatchGetPath ==
    /\ get_path # <<>>
    /\ \A t \in Transports : work_list[t] = <<>>
    /\ Len(queue_path_gen) < MaxPending
    /\ get_path' = Tail(get_path)
    /\ \E sent \in BOOLEAN :
         queue_path_gen' = IF sent
                           THEN Append(queue_path_gen, "handle_manual_path_request")
                           ELSE queue_path_gen
    /\ UNCHANGED mv_payload_path_segments
    /\ UNCHANGED pathFrame

\* run_scheduled_path_generation: db.refresh_materialized_view(
\* 'mv_payload_path_segments'), i.e. REFRESH MATERIALIZED VIEW CONCURRENTLY.
\* helpers/db.py defines no refresh_materialized_view: the call raises
\* AttributeError unless the module in use has the function.
RunScheduledPathGeneration ==
    /\ queue_path_gen # <<>>
    /\ Head(queue_path_gen) = "run_scheduled_path_generation"
    /\ queue_path_gen' = Tail(queue_path_gen)
    /\ \E defined \in BOOLEAN, up \in BOOLEAN :
         mv_payload_path_segments' =
             IF defined /\ up THEN PathSegments(telemetry)
             ELSE mv_payload_path_segments
    /\ UNCHANGED get_path
    /\ UNCHANGED pathFrame

\* what handle_manual_path_request leaves in the view: it logs, sleeps 5 s
\* and returns a string; it runs no statement
ManualResult(rows, view) == view

\* handle_manual_path_request(raw_data_item)
HandleManualPathRequest ==
    /\ queue_path_gen # <<>>
    /\ Head(queue_path_gen) = "handle_manual_path_request"
    /\ queue_path_gen' = Tail(queue_path_gen)
    /\ mv_payload_path_segments' = ManualResult(telemetry, mv_payload_path_segments)
    /\ UNCHANGED get_path
    /\ UNCHANGED pathFrame

InitPath ==
    /\ get_path = <<>>
    /\ queue_path_gen = <<>>
    /\ mv_payload_path_segments = {}

----------------------------------------------------------------------------
(* Part V: the ingress routes (api/app/routers/ingress.py) *)

\* the tokens a post to /iridium can carry
JWTs == {"verified", "bad_signature", "expired", "malformed"}

\* mutant: every token passes
AcceptsAnyJwt(jwt_token) == TRUE

\* jwt.decode(jwt_token, public_key_pem, algorithms=["RS256"]) returns the
\* payload of a token signed by the key and not expired, and raises a JWTError
\* for every other token
JwtDecodes(jwt_token) == jwt_token = "verified"

\* verify_groundcontrol_jwt(jwt_token): 0 when the payload is returned, else the
\* status of the HTTPException raised
VerifyGroundcontrolJwt(jwt_token) == IF JwtDecodes(jwt_token) THEN 0 ELSE 401

NoResponse == [route |-> "none", status |-> 0, queue_number |-> 0,
               decode_success |-> NULL, detail |-> "none"]

\* mutant: a failure is answered as if the message had been accepted
HTTPExceptionAccepted(route, status, detail) ==
    [route |-> route, status |-> 202, queue_number |-> 0,
     decode_success |-> NULL, detail |-> detail]

\* raise HTTPException(status_code, detail): the reply FastAPI makes of it
HTTPException(route, status, detail) ==
    [route |-> route, status |-> status, queue_number |-> 0,
     decode_success |-> NULL, detail |-> detail]

QueueStatusResponse(route, queue_number, decode_success) ==
    [route |-> route, status |-> 202, queue_number |-> queue_number,
     decode_success |-> decode_success, detail |-> "none"]

\* the reply of RPUSH: the length of the list after the push
Rpush(queue_name) == Len(work_list[queue_name]) + 1

\* _push_to_redis_queue(redis_client, queue_name, data): the reply that ends
\* the request when the push fails, NoResponse when the element is on the list.
\* RPUSH either raises and leaves the list alone, or appends and returns.
PushFailure(queue_name, serializable, rpush_ok) ==
    IF ~serializable
      THEN HTTPException(queue_name, 500, "Failed to serialize message for queue")
    ELSE IF ~rpush_ok
      THEN HTTPException(queue_name, 503, "Failed to queue message (Redis Error)")
    ELSE IF Rpush(queue_name) <= 0
      THEN HTTPException(queue_name, 500, "Unexpected error queuing message")
    ELSE NoResponse

\* the decode_success a route reports: /lora reports none, /iridium the outcome
\* of the hex decoding, /aprs the outcome of the parse when raw_data is a string
DecodeSuccess(route, is_str, decodes) ==
    IF route = "lora" \/ (route = "aprs" /\ ~is_str) THEN NULL ELSE Some(decodes)

\* queue_aprs_message, queue_lora_message, queue_iridium_message: a post of
\* body v to the route, carrying token jwt on /iridium
QueueMessage(e, v, jwt, is_str, decodes, serializable, rpush_ok) ==
    /\ envelope[e] = NoEnvelope
    /\ \A d \in Envelopes : d < e => envelope[d] # NoEnvelope
    /\ LET route == v.transport
           auth == IF route = "iridium" THEN VerifyGroundcontrolJwt(jwt) ELSE 0
           failure == PushFailure(route, serializable, rpush_ok)
       IN  /\ request' = [route |-> route,
                          JWT |-> IF route = "iridium" THEN jwt ELSE "none"]
           /\ IF auth # 0
               THEN /\ response' = HTTPException(route, auth, "Could not validate JWT signature")
                    /\ UNCHANGED <<envelope, work_list, task>>
              ELSE IF failure # NoResponse
               THEN /\ response' = failure
                    /\ UNCHANGED <<envelope, work_list, task>>
              ELSE /\ envelope' = [envelope EXCEPT ![e] = v]
                   /\ work_list' = [work_list EXCEPT ![route] = Append(@, e)]
                   /\ task' = At3(e, "listed")
                   /\ response' = QueueStatusResponse(route, Rpush(route),
                                      DecodeSuccess(route, is_str, decodes))
    /\ UNCHANGED <<celery_queue, raw_messages, payloads, publish_queue, channel,
                   trace>>
    /\ UNCHANGED ingressFrame

NoRequest == [route |-> "none", JWT |-> "none"]

InitIngress ==
    /\ request = NoRequest
    /\ response = NoResponse

----------------------------------------------------------------------------
(* Part VI: the getTelemetry branch of the /ws handler and the handling of
   messages that raise (api/app/routers/map_data.py). The steps are those of
   Part II; redis.get is taken with the receive, redis.set with the return of
   the query. *)

\* SELECT altitude, speed, course, battery, accuracy, extra ...;
\* models.TelemetryData(**dict(row)).model_dump()
TelemetryData(row) ==
    [altitude |-> row.altitude, speed |-> row.speed, course |-> row.course,
     battery |-> row.battery, accuracy |-> row.accuracy, extra |-> row.extra]

\* fetch_telemetry_data(db, payload_id, timestamp): the model of the row, or None
FetchTelemetryData(rows, key) ==
    IF \E t \in rows : RowKey(t) = key
    THEN Some(TelemetryData(CHOOSE t \in rows : RowKey(t) = key))
    ELSE NULL

NoLookup == [cache_key |-> <<0, 0>>, telemetry_data_dict |-> NULL]

\* the handler is about to send a reply of the getTelemetry branch
Replying(ws, response_type) ==
    [handler EXCEPT ![ws] = [pc |-> "reply", request |-> "getTelemetry",
                             cells |-> {}, response |-> response_type]]

\* getTelemetry received: the payload is validated and the cache is read; on a
\* miss the handler suspends in fetch_telemetry_data
ReceiveGetTelemetry(ws, key, valid, redis_ok) ==
    /\ handler[ws].pc = "receive"
    /\ client[ws] = "open"
    /\ IF ~valid \/ ~redis_ok
       THEN /\ handler' = Replying(ws, "error")
            /\ UNCHANGED lookup
       ELSE IF key \in DOMAIN cache
       THEN /\ handler' = Replying(ws, "telemetryResponse")
            /\ lookup' = [lookup EXCEPT ![ws] =
                             [cache_key |-> key, telemetry_data_dict |-> cache[key]]]
       ELSE /\ handler' = [handler EXCEPT ![ws] =
                              [pc |-> "fetch_telemetry", request |-> "getTelemetry",
                               cells |-> {}, response |-> "none"]]
            /\ lookup' = [lookup EXCEPT ![ws] =
                             [cache_key |-> key, telemetry_data_dict |-> NULL]]
    /\ UNCHANGED <<regState, client, listener, torn, cache>>
    /\ UNCHANGED socketFrame

\* if telemetry_model: the result is cached when a row was found
CachesFound(telemetry_model) == telemetry_model # NULL

\* the query returns: a row found is cached for an hour, and telemetryResponse
\* is the reply; or the query or redis.set raises, and error is the reply
FetchTelemetryReturns(ws, ok, set_ok) ==
    LET key == lookup[ws].cache_key
        telemetry_model == FetchTelemetryData(telemetry, key)
    IN /\ handler[ws].pc = "fetch_telemetry"
       /\ IF ~ok \/ (CachesFound(telemetry_model) /\ ~set_ok)
          THEN /\ handler' = Replying(ws, "error")
               /\ UNCHANGED <<cache, lookup>>
          ELSE /\ handler' = Replying(ws, "telemetryResponse")
               /\ lookup' = [lookup EXCEPT ![ws].telemetry_data_dict = telemetry_model]
               /\ cache' = IF CachesFound(telemetry_model)
                              THEN Put(cache, key, telemetry_model)
                              ELSE cache
       /\ UNCHANGED <<regState, client, listener, torn>>
       /\ UNCHANGED socketFrame

\* ex=3600: the key expires
Expire(key) ==
    /\ key \in DOMAIN cache
    /\ cache' = Del(cache, key)
    /\ UNCHANGED <<lookup, regVars>>
    /\ UNCHANGED socketFrame

\* what is wrong with a message that is not handled
Faults == {"unknown_type", "invalid_json", "invalid_payload", "not_object"}

\* except Exception ... break: message.get raises AttributeError on JSON that is
\* not an object, outside the try blocks of the branches
Breaks(fault) == fault = "not_object"

\* a message is received whose handling raises before any query is made
ReceiveFaulty(ws, fault) ==
    /\ handler[ws].pc = "receive"
    /\ client[ws] = "open"
    /\ handler' = [handler EXCEPT ![ws] =
                      [pc |-> IF Breaks(fault) THEN "reply_break" ELSE "reply",
                       request |-> fault, cells |-> {}, response |-> "error"]]
    /\ UNCHANGED <<regState, client, listener, torn>>
    /\ UNCHANGED <<dbVars, pipeVars, auxVars>>

\* the error is sent (a failure of the send is passed over, after the
\* disconnect send_personal_message makes), then break; finally:
\* manager.disconnect, which raises when the websocket is registered no more
ReplyAndBreak(ws) ==
    LET sent == IF SendFails(ws) /\ ~DisconnectRaises(Registry, ws)
                THEN Disconnect(Registry, ws) ELSE Registry
    IN /\ handler[ws].pc = "reply_break"
       /\ IF DisconnectRaises(sent, ws)
          THEN /\ handler' = At(ws, "crashed")
               /\ SetRegistry(sent)
          ELSE /\ handler' = At(ws, "closed")
               /\ SetRegistry(Disconnect(sent, ws))
       /\ torn' = IF ws \in active_connections THEN torn \cup {ws} ELSE torn
       /\ UNCHANGED <<client, listener>>
       /\ UNCHANGED <<dbVars, pipeVars, auxVars>>

InitSocket ==
    /\ cache = <<>>
    /\ lookup = [ws \in Conns |-> NoLookup]

----------------------------------------------------------------------------
(* Part VII: the normalizer (tasks/code/models/normalizers.py, packet.py) as
   the LoRa worker runs it. Degrees are counted in ten-thousandths, volts in
   thousandths: a float is given by its count, an int by its value. *)

Raised == [ok |-> FALSE, value |-> 0]

Returned(value) == [ok |-> TRUE, value |-> value]

\* degrees + minutes / 60.0 of a string "D M dir" (the fraction is truncated)
DmsDegrees(value) ==
    LET decimal_degrees == value[2] * 10000 + (value[3] * 10000) \div 60
    IN IF value[4] \in {"S", "W"} THEN 0 - decimal_degrees ELSE decimal_degrees

\* parse_coordinate(value, coord_type)
ParseCoordinate(value, coord_type) ==
    LET max_val == IF coord_type = "lat" THEN 900000 ELSE 1800000
        min_val == 0 - max_val
        Bounded(decimal_degrees) ==
            IF min_val <= decimal_degrees /\ decimal_degrees <= max_val
            THEN Returned(decimal_degrees) ELSE Raised
    IN IF value[1] = "float" THEN Bounded(value[2])
       ELSE IF value[1] = "int" THEN Bounded(value[2])
       ELSE IF value[1] = "str"
       THEN IF value[3] >= 60 THEN Raised
            ELSE IF coord_type = "lat" /\ value[4] \notin {"N", "S", ""} THEN Raised
            ELSE IF coord_type = "lon" /\ value[4] \notin {"E", "W", ""} THEN Raised
            ELSE Bounded(DmsDegrees(value))
       ELSE Raised

\* normalize_voltage(value)
NormalizeVoltage(value) ==
    IF value = NULL THEN Returned(NULL)
    ELSE IF value[1] \notin {"int", "float"} THEN Raised
    ELSE LET v_float == IF value[1] = "int" THEN value[2] * 1000 ELSE value[2]
         IN IF v_float < 0 THEN Raised
            ELSE IF v_float > 1000000 THEN Returned(Some(v_float \div 1000))
            ELSE IF value[1] = "int" /\ 20 <= value[2] /\ value[2] <= 60
              THEN Returned(Some(value[2] * 100))
            ELSE Returned(Some(v_float))

\* course: Optional[float] = Field(None, ..., ge=0, le=360)
ValidateCourse(value) ==
    IF value = NULL THEN Returned(NULL)
    ELSE IF 0 <= value[1] /\ value[1] <= 360 THEN Returned(value)
    ELSE Raised

\* process_json_msg(raw_data): the ParsedPacket, or None when a field fails
ProcessJsonMsg(data) ==
    LET latitude == ParseCoordinate(data.lat, "lat")
        longitude == ParseCoordinate(data.lon, "lon")
        course == ValidateCourse(data.course)
        battery == NormalizeVoltage(data.battery)
    IN IF data.call_ok /\ latitude.ok /\ longitude.ok /\ course.ok /\ battery.ok
       THEN Some([data_time |-> data.data_time,
                  latitude |-> latitude.value, longitude |-> longitude.value,
                  accuracy |-> NULL, altitude |-> NULL, speed |-> NULL,
                  course |-> course.value, battery |-> battery.value,
                  extra |-> Some({})])
       ELSE NULL

LatInputs == {<<"float", 423000>>, <<"int", 910000>>, <<"str", 42, 30, "S">>}

LonInputs == {<<"int", 1800001>>, <<"str", 83, 45, "W">>}

CourseInputs == {NULL, Some(359), Some(360), Some(361)}

BatteryInputs == {NULL, <<"int", 38>>, <<"float", 0 - 500>>, <<"str", 0>>}

\* the JSON payloads that arrive over LoRa
PayloadDicts ==
    [call_ok : BOOLEAN, lat : LatInputs, lon : LonInputs, course : CourseInputs,
     battery : BatteryInputs, data_time : {1}]

NoLoraTask == [payload |-> NULL, parsed_payload |-> NULL, error |-> "none"]

\* process_lora from process_json_msg to upload_telemetry, for the payload with
\* id 1: a payload that did not validate is None, and the read of its callsign
\* raises; so does the read of data_time on an object without the attribute
ProcessLora(data, has_data_time, up) ==
    LET parsed_payload == ProcessJsonMsg(data)
        Ends(error) == lora_task' = [payload |-> Some(data),
                                     parsed_payload |-> parsed_payload,
                                     error |-> error]
    IN /\ IF parsed_payload = NULL
          THEN Ends("AttributeError: callsign") /\ UNCHANGED telemetry
          ELSE IF ~has_data_time
          THEN Ends("AttributeError: data_time") /\ UNCHANGED telemetry
          ELSE IF ~up
          THEN Ends("SQLAlchemyError") /\ UNCHANGED telemetry
          ELSE /\ Ends("none")
               /\ \E clock \in ClockReads(telemetry) :
                    telemetry' = Upsert(telemetry, Excluded(Params(parsed_payload[1], 1)),
                                        clock)
       /\ UNCHANGED <<session, inbox, applied, audit>>
       /\ UNCHANGED normFrame

InitNorm == lora_task = NoLoraTask

----------------------------------------------------------------------------
(* Part VIII: the MQTT services of the legacy backend (src/backend/ingestion.py,
   station_ingestion.py, database.py). Degrees are counted in ten-thousandths. *)

MaxStations == 2

\* validate_coordinates, the validator of both coordinate fields
ValidateCoordinates(value) == 0 - 900000 <= value /\ value <= 900000

\* TelemetryData(**payload) does not raise
TelemetryDataValid(payload) ==
    /\ payload.complete
    /\ ValidateCoordinates(payload.lat)
    /\ ValidateCoordinates(payload.lon)

\* StationData(**payload) does not raise
StationDataValid(payload) ==
    /\ payload.complete
    /\ ValidateCoordinates(payload.latitude)
    /\ ValidateCoordinates(payload.longitude)

\* check_duplicate(id, timestamp): False when the query raises
CheckDuplicate(rows, id, timestamp, db_ok) ==
    db_ok /\ \E r \in rows : r.id = id /\ r.timestamp = timestamp

\* the messages published on balloons/telemetry; complete: every required field
\* is there with a value of its type
TelemetryMessages ==
    [json_ok : BOOLEAN, complete : BOOLEAN, id : {"test_balloon"},
     lat : {407128, 910000}, lon : {0 - 740060, 0 - 1182437, 0 - 1810000},
     timestamp : {NULL, Some(1)}]

\* the messages published on stations/data
StationMessages ==
    [json_ok : BOOLEAN, complete : BOOLEAN, station_id : {"Station-123"},
     latitude : {340522, 910000}, longitude : {0 - 740060, 0 - 1182437},
     timestamp : {1}]

\* on_message of ingestion.py: a missing timestamp is the time of receipt
OnTelemetryMessage(payload, now, db_ok) ==
    LET timestamp == IF payload.timestamp = NULL THEN now ELSE payload.timestamp[1]
        telemetry_data == [id |-> payload.id, lat |-> payload.lat, lon |-> payload.lon,
                           timestamp |-> timestamp]
        stores == /\ payload.json_ok
                  /\ TelemetryDataValid(payload)
                  /\ ~CheckDuplicate(supabase.telemetry, payload.id, timestamp, db_ok)
    IN /\ mqtt' = [topic |-> "balloons/telemetry", payload |-> payload,
                   timestamp |-> timestamp, db_ok |-> db_ok,
                   calls |-> IF stores THEN 1 ELSE 0]
       /\ supabase' = IF stores /\ db_ok
                         THEN [supabase EXCEPT !.telemetry = @ \cup {telemetry_data}]
                         ELSE supabase
       /\ UNCHANGED legacyFrame

\* on_message of station_ingestion.py
OnStationMessage(payload, db_ok) ==
    LET inserts == payload.json_ok /\ StationDataValid(payload)
        station_data == [station_id |-> payload.station_id,
                         latitude |-> payload.latitude,
                         longitude |-> payload.longitude,
                         timestamp |-> payload.timestamp]
    IN /\ Len(supabase.stations) < MaxStations
       /\ mqtt' = [topic |-> "stations/data", payload |-> payload,
                   timestamp |-> payload.timestamp, db_ok |-> db_ok,
                   calls |-> IF inserts THEN 1 ELSE 0]
       /\ supabase' = IF inserts /\ db_ok
                         THEN [supabase EXCEPT !.stations = Append(@, station_data)]
                         ELSE supabase
       /\ UNCHANGED legacyFrame

InitLegacy ==
    /\ supabase = [telemetry |-> {}, stations |-> <<>>]
    /\ mqtt = [topic |-> "none", payload |-> NULL, timestamp |-> 0, db_ok |-> TRUE,
               calls |-> 0]

----------------------------------------------------------------------------
(* Part IX: the watcher over all the lists it watches                      *)
(* (dashboard/backend/tasks/code/watcher.py).                              *)

\* WATCH_MAP: Redis list -> the Celery queue its task is sent to
WATCH_MAP ==
    [aprs |-> "queue_aprs", iridium |-> "queue_iridium", lora |-> "queue_lora",
     predict_flight |-> "queue_predictions", get_path |-> "queue_path_gen"]

\* lists_to_watch = list(WATCH_MAP.keys()), in the order of the dict
lists_to_watch == <<"aprs", "iridium", "lora", "predict_flight", "get_path">>

WatchedLists == {lists_to_watch[i] : i \in DOMAIN lists_to_watch}

\* a list holds at most this many raw data at a time
MaxWaiting == 2

\* the raw data, told apart by a number that is free on their list
RawData == 1..MaxWaiting

Elements(seq) == {seq[i] : i \in DOMAIN seq}

\* redis_client.blpop(keys, timeout=0): the first key, in the order the keys
\* are given, whose list is not empty
Blpop(lists, keys) ==
    keys[CHOOSE i \in DOMAIN keys :
            /\ lists[keys[i]] # <<>>
            /\ \A j \in DOMAIN keys : j < i => lists[keys[j]] = <<>>]

\* a producer pushes raw data at the tail of a watched list
\* (queue_message for the transports, a manual trigger for the other two)
PushRaw(list_name, raw_data) ==
    /\ Len(watch_list[list_name]) < MaxWaiting
    /\ raw_data \notin Elements(watch_list[list_name])
    /\ watch_list' = [watch_list EXCEPT ![list_name] = Append(@, raw_data)]
    /\ UNCHANGED watcher
    /\ UNCHANGED watchFrame

\* run_watcher, one turn of its loop over all the watched lists: the blocking
\* pop, the look-up in WATCH_MAP and send_task, which may raise
WatcherTurn ==
    /\ \E list_name \in WatchedLists : watch_list[list_name] # <<>>
    /\ LET source_list == Blpop(watch_list, lists_to_watch)
           raw_data == Head(watch_list[source_list])
       IN /\ watch_list' = [watch_list EXCEPT ![source_list] = Tail(@)]
          /\ \E sent \in BOOLEAN :
               watcher' = [source_list |-> source_list, raw_data |-> raw_data,
                           queue_name |-> IF sent THEN WATCH_MAP[source_list]
                                                  ELSE "none"]
    /\ UNCHANGED watchFrame

InitWatch ==
    /\ watch_list = [list_name \in WatchedLists |-> <<>>]
    /\ watcher = [source_list |-> "none", raw_data |-> 0, queue_name |-> "none"]

----------------------------------------------------------------------------
(* Part X: the two ingestion handlers of the legacy backend on one table   *)
(* (backend/ingestion.py, backend/aprs_ingestion.py, backend/database.py). *)

\* on_message of ingestion.py and APRSClient.receive of aprs_ingestion.py run
\* in processes of their own
Handlers == {"MQTT", "APRS"}

BalloonIds == {"test_balloon"}

Timestamps == {1, 2}

\* the table takes at most this many records
MaxRecords == 3

Records(table) == {table[i] : i \in DOMAIN table}

\* store_telemetry(data): supabase.table("telemetry").insert(data).execute().
\* The schema is not part of the source tree: where (id, timestamp) is unique
\* the insert of a second record raises, which store_telemetry turns into None.
StoreTelemetry(table, data, db_ok, unique) ==
    IF ~db_ok \/ (unique /\ CheckDuplicate(Records(table), data.id,
                                           data.timestamp, TRUE))
    THEN table
    ELSE Append(table, data)

NoIngestion == [pc |-> "receive", telemetry_data |-> NULL]

\* a handler has its TelemetryData and calls check_duplicate: a duplicate is
\* printed and dropped, anything else goes on to store_telemetry
HandlerChecks(h, id, timestamp, db_ok) ==
    LET telemetry_data == [id |-> id, timestamp |-> timestamp, source |-> h]
    IN /\ ingestion[h].pc = "receive"
       /\ Len(telemetry_table) + Cardinality({g \in Handlers :
                                                ingestion[g].pc = "store"})
            < MaxRecords
       /\ ingestion' = [ingestion EXCEPT ![h] =
             IF CheckDuplicate(Records(telemetry_table), id, timestamp, db_ok)
             THEN [pc |-> "receive", telemetry_data |-> Some(telemetry_data)]
             ELSE [pc |-> "store", telemetry_data |-> Some(telemetry_data)]]
       /\ UNCHANGED telemetry_table
       /\ UNCHANGED dedupFrame

\* the handler calls store_telemetry(telemetry_data.model_dump()) and goes
\* back to its loop
HandlerStores(h, db_ok, unique) ==
    /\ ingestion[h].pc = "store"
    /\ telemetry_table' = StoreTelemetry(telemetry_table,
                                         ingestion[h].telemetry_data[1],
                                         db_ok, unique)
    /\ ingestion' = [ingestion EXCEPT ![h].pc = "receive"]
    /\ UNCHANGED dedupFrame

InitDedup ==
    /\ telemetry_table = <<>>
    /\ ingestion = [h \in Handlers |-> NoIngestion]

InitAux ==
    /\ InitPath
    /\ InitIngress
    /\ InitSocket
    /\ InitNorm
    /\ InitLegacy
    /\ InitWatch
    /\ InitDedup

----------------------------------------------------------------------------
(* Specifications *)

InitDB ==
    /\ telemetry = {}
    /\ session = [w \in Workers |-> Idle]
    /\ applied = <<>>
    /\ audit = [k \in Keys |-> NoAudit]

\* a worker upserts one of the packets that arrived, on payload 1
Apply(p) ==
    /\ Len(applied) < MaxApplied
    /\ Execute(1, 1, p)
    /\ applied' = Append(applied, p)

\* the packets in flight are any one or two packets of one data_time
InitLaws ==
    /\ InitDB
    /\ InitAux
    /\ InitPipeline
    /\ InitRegistry
    /\ inbox \in {{a, b} : a, b \in PacketsAt(1)}

NextLaws ==
    \/ \E p \in inbox : Apply(p)
    \/ Return(1)

SpecLaws == InitLaws /\ [][NextLaws]_vars

\* concurrent workers upserting the scenario's posts of two data_times
InitWorkers ==
    /\ InitDB
    /\ InitAux
    /\ InitPipeline
    /\ InitRegistry
    /\ inbox = UNION {ScenarioPosts(dt) : dt \in DataTimes}

NextWorkers ==
    \/ \E w \in Workers, payload_id \in PayloadIds, p \in inbox :
         Execute(w, payload_id, p) /\ UNCHANGED applied
    \/ \E w \in Workers : Return(w)

SpecWorkers == InitWorkers /\ [][NextWorkers]_vars

\* the web process: handlers of the websockets and the pub/sub listener
InitViewport ==
    /\ InitDB
    /\ InitAux
    /\ InitPipeline
    /\ inbox = {}
    /\ InitRegistry

NextViewport ==
    \/ \E ws \in Conns : Connect(ws)
    \/ \E ws \in Conns : ClientLeaves(ws)
    \/ \E ws \in Conns, cells \in Viewports : ReceiveGetInitialData(ws, cells)
    \/ \E ws \in Conns, ok \in BOOLEAN : FetchInitialReturns(ws, ok)
    \/ \E ws \in Conns, new_cells \in Viewports : ReceiveUpdateViewport(ws, new_cells)
    \/ \E ws \in Conns, ok \in BOOLEAN : FetchCatchupReturns(ws, ok)
    \/ \E ws \in Conns : Reply(ws)
    \/ \E ws \in Conns : ReceiveDisconnect(ws)
    \/ \E cell_id \in Cells : BroadcastToRoom(cell_id)
    \/ \E ws \in Conns : BroadcastSend(ws)
    \/ BroadcastCleanup

SpecViewport == InitViewport /\ [][NextViewport]_vars

\* the worker fabric: ingress, watcher, protocol workers and the publisher
InitFabric ==
    /\ InitDB
    /\ InitAux
    /\ inbox = {}
    /\ InitRegistry
    /\ InitPipeline

NextPipeline ==
    \/ \E e \in Envelopes, v \in EnvelopeValues : Ingress(e, v)
    \/ WatcherDispatch
    \/ \E e \in Envelopes : TaskStart(e)
    \/ \E e \in Envelopes : Decode(e)
    \/ \E e \in Envelopes : InsertPayload(e)
    \/ \E e \in Envelopes : UploadTelemetry(e)
    \/ \E e \in Envelopes : UpdateRawMessage(e)
    \/ PublishTelemetry

SpecPipeline == InitFabric /\ [][NextPipeline]_vars

\* the path generator beside a worker that upserts the scenario's posts
InitPathGenerator ==
    /\ InitDB
    /\ InitRegistry
    /\ InitPipeline
    /\ InitAux
    /\ inbox = ScenarioPosts(1)

NextPathGenerator ==
    \/ \E p \in inbox : Execute(1, 1, p) /\ UNCHANGED applied
    \/ Return(1)
    \/ BeatSchedulePathGenerator
    \/ PushGetPath
    \/ WatcherDispatchGetPath
    \/ RunScheduledPathGeneration
    \/ HandleManualPathRequest

SpecPathGenerator == InitPathGenerator /\ [][NextPathGenerator]_vars

\* the ingress routes beside the watcher that empties the lists
NextIngress ==
    \/ \E e \in Envelopes, v \in EnvelopeValues, jwt \in JWTs,
          is_str, decodes, serializable, rpush_ok \in BOOLEAN :
         QueueMessage(e, v, jwt, is_str, decodes, serializable, rpush_ok)
    \/ WatcherDispatch

SpecIngress == InitFabric /\ [][NextIngress]_vars

\* the /ws handlers beside a worker that upserts the scenario's posts
NextSocket ==
    \/ \E p \in inbox : Execute(1, 1, p) /\ UNCHANGED applied
    \/ Return(1)
    \/ \E ws \in Conns : Connect(ws)
    \/ \E ws \in Conns : ClientLeaves(ws)
    \/ \E ws \in Conns, key \in Keys, valid, redis_ok \in BOOLEAN :
         ReceiveGetTelemetry(ws, key, valid, redis_ok)
    \/ \E ws \in Conns, ok, set_ok \in BOOLEAN : FetchTelemetryReturns(ws, ok, set_ok)
    \/ \E key \in Keys : Expire(key)
    \/ \E ws \in Conns, fault \in Faults : ReceiveFaulty(ws, fault)
    \/ \E ws \in Conns : Reply(ws)
    \/ \E ws \in Conns : ReplyAndBreak(ws)
    \/ \E ws \in Conns : ReceiveDisconnect(ws)

SpecSocket == InitPathGenerator /\ [][NextSocket]_vars

\* the LoRa worker normalizing payload after payload
NextNormalizer ==
    \E data \in PayloadDicts, has_data_time, up \in BOOLEAN :
        ProcessLora(data, has_data_time, up)

SpecNormalizer == InitFabric /\ [][NextNormalizer]_vars

\* the two MQTT services of the legacy backend
NextLegacy ==
    \/ \E payload \in TelemetryMessages, now \in {1, 2}, db_ok \in BOOLEAN :
         OnTelemetryMessage(payload, now, db_ok)
    \/ \E payload \in StationMessages, db_ok \in BOOLEAN :
         OnStationMessage(payload, db_ok)

SpecLegacy == InitFabric /\ [][NextLegacy]_vars

\* the watcher and the producers of its lists; the watcher's loop never stops,
\* so a turn that can be taken is taken
NextWatcher ==
    \/ \E list_name \in WatchedLists, raw_data \in RawData :
         PushRaw(list_name, raw_data)
    \/ WatcherTurn

SpecWatcher == InitFabric /\ [][NextWatcher]_vars /\ WF_vars(WatcherTurn)

\* the MQTT and the APRS ingestion of the legacy backend, side by side
NextDedup ==
    \/ \E h \in Handlers, id \in BalloonIds, timestamp \in Timestamps,
          db_ok \in BOOLEAN :
         HandlerChecks(h, id, timestamp, db_ok)
    \/ \E h \in Handlers, db_ok \in BOOLEAN, unique \in BOOLEAN :
         HandlerStores(h, db_ok, unique)

SpecDedup == InitFabric /\ [][NextDedup]_vars

----------------------------------------------------------------------------
(* Part I: properties of the upsert *)

HasRow(rows, k) == \E t \in rows : RowKey(t) = k

RowAt(rows, k) == CHOOSE t \in rows : RowKey(t) = k

PointOf(p) == <<p.longitude, p.latitude>>

KeyOf(p) == <<1, p.data_time>>

\* the step upserts packet p on a key that already has a row
UpsertsOnto(p) ==
    /\ applied' = Append(applied, p)
    /\ HasRow(telemetry, KeyOf(p))

\* C1: an upsert on an existing row overwrites position and accuracy together,
\* with the incoming ones, exactly when the incoming accuracy is non-null and
\* strictly smaller than a non-null stored accuracy; in every other case both
\* are kept. The posts (accuracy 50, P1, no altitude) then (accuracy 10, P2,
\* altitude 1000) end with P2, 10, 1000.
C1_PositionFollowsBetterAccuracy ==
    /\ [][\A p \in inbox : UpsertsOnto(p) =>
            LET old == RowAt(telemetry, KeyOf(p))
                new == RowAt(telemetry', KeyOf(p))
            IN IF /\ ~IsNull(p.accuracy)
                  /\ ~IsNull(old.accuracy)
                  /\ p.accuracy[1] < old.accuracy[1]
               THEN new.position = PointOf(p) /\ new.accuracy = p.accuracy
               ELSE new.position = old.position /\ new.accuracy = old.accuracy]_vars
    /\ [](applied = <<Packet(1, Some(50), {}, 1), Packet(2, Some(10), {"altitude"}, 1)>>
            => LET r == RowAt(telemetry, <<1, 1>>)
               IN /\ r.position = <<0 - 75, 40>>
                  /\ r.accuracy = Some(10)
                  /\ r.altitude = Some(1000))

C1_Witness ==
    /\ applied = <<Packet(1, Some(50), {}, 1), Packet(2, Some(10), {"altitude"}, 1)>>
    /\ session[1].pc = "idle"
    /\ session[1].ret[2] = FALSE
    /\ RowAt(telemetry, <<1, 1>>).position = <<0 - 75, 40>>
    /\ RowAt(telemetry, <<1, 1>>).accuracy = Some(10)

\* C2: on a conflicting upsert each of altitude, speed, course, battery, extra
\* takes the incoming value only when the stored value is null and the incoming
\* one is not; so a field that is non-null keeps its value in every later state.
C2_FillForward ==
    /\ [][\A p \in inbox : UpsertsOnto(p) =>
            LET old == RowAt(telemetry, KeyOf(p))
                new == RowAt(telemetry', KeyOf(p))
            IN \A f \in OptionalFields :
                 IF IsNull(old[f]) /\ ~IsNull(p[f])
                 THEN /\ ~IsNull(new[f])
                      /\ f # "extra" => new[f] = p[f]
                 ELSE new[f] = old[f]]_vars
    /\ [][\A t \in telemetry : \E u \in telemetry' :
            /\ u.id = t.id
            /\ \A f \in OptionalFields : ~IsNull(t[f]) => u[f] = t[f]]_vars

C2_Witness ==
    /\ Len(applied) >= 2
    /\ \A f \in OptionalFields :
         /\ applied[1][f] = Some(500)
         /\ applied[2][f] = Some(1000)
    /\ RowAt(telemetry, <<1, 1>>).course = Some(500)
    /\ RowAt(telemetry, <<1, 1>>).altitude = Some(500)

\* C3: whatever the interleaving of the workers, the table never holds two
\* rows with the same (payload_id, data_time), and a step adds a row only for
\* a key that had none.
C3_OneRowPerKey ==
    /\ [](\A t, u \in telemetry : RowKey(t) = RowKey(u) => t = u)
    /\ [][\A u \in telemetry' :
            (\A t \in telemetry : t.id # u.id) => ~HasRow(telemetry, RowKey(u))]_vars

C3_Witness ==
    /\ Cardinality(telemetry) = 2
    /\ \A w \in Workers : session[w].pc = "in_txn"
    /\ \A k \in Keys : audit[k].ids # {} /\ HasRow(telemetry, k)

\* C4: the statement reports xmax = 0, and the call was_inserted = true,
\* exactly when the key had no row; calls of several workers on one key never
\* raise, all return the id of the one row, and exactly one of them returns
\* was_inserted = true.
C4_WasInsertedOnce ==
    /\ [][\A w \in Workers :
            /\ (session[w].pc = "idle" /\ session'[w].pc = "in_txn") =>
                 (session'[w].result_row[2] = 0 <=> ~HasRow(telemetry, session'[w].key))
            /\ (session[w].pc = "in_txn" /\ session'[w].pc # "in_txn") =>
                 /\ session'[w].pc = "idle"
                 /\ session'[w].ret[1] = RowAt(telemetry, session[w].key).id
                 /\ session'[w].ret[2] = (session[w].result_row[2] = 0)]_vars
    /\ [](\A w \in Workers : session[w].pc # "raised")
    /\ [](\A k \in Keys : audit[k].ids # {} =>
            /\ audit[k].ids = {RowAt(telemetry, k).id}
            /\ audit[k].inserted = 1)

C4_Witness ==
    \E w, v \in Workers :
        /\ w # v
        /\ session[w].pc = "idle" /\ session[v].pc = "idle"
        /\ session[w].key = session[v].key
        /\ session[w].ret[2] = TRUE
        /\ session[v].ret = <<session[w].ret[1], FALSE>>

\* the last two upserts applied the same packet
Repeated == Len(applied) >= 2 /\ applied[Len(applied)] = applied[Len(applied) - 1]

\* C5: upserting the packet that was just upserted leaves the row as the first
\* application left it (same id, same position, accuracy, altitude, speed,
\* course, battery, extra, and no second row), and the second call returns
\* was_inserted = false. last_updated alone is set again, as the contract says.
C5_UpsertIdempotent ==
    /\ [][\A p \in inbox :
            (UpsertsOnto(p) /\ Len(applied) >= 1 /\ applied[Len(applied)] = p) =>
               LET old == RowAt(telemetry, KeyOf(p))
                   new == RowAt(telemetry', KeyOf(p))
               IN /\ new.id = old.id
                  /\ Data(new) = Data(old)
                  /\ Cardinality(telemetry') = Cardinality(telemetry)]_vars
    /\ [][(session[1].pc = "in_txn" /\ session'[1].pc # "in_txn" /\ Repeated) =>
            session'[1].ret = <<RowAt(telemetry, <<1, 1>>).id, FALSE>>]_vars

C5_Witness ==
    /\ Repeated
    /\ session[1].pc = "idle"
    /\ session[1].ret[2] = FALSE
    /\ ~IsNull(applied[Len(applied)].accuracy)
    /\ ~IsNull(applied[Len(applied)].battery)

\* NULL compares with nothing: neither accuracy is strictly better than the other
NeitherBetter(a, b) ==
    \/ IsNull(a.accuracy)
    \/ IsNull(b.accuracy)
    \/ a.accuracy[1] = b.accuracy[1]

DisjointFields(a, b) == \A f \in OptionalFields : IsNull(a[f]) \/ IsNull(b[f])

\* the row of key (1, 1) after b then a have been upserted into an empty table
RowOfOrder(b, a) ==
    RowAt(Upsert(Upsert({}, Excluded(Params(b, 1)), 0), Excluded(Params(a, 1)), 0),
          <<1, 1>>)

\* exactly A then B have been upserted, and they meet the premise of C6
MergedPair ==
    /\ Len(applied) = 2
    /\ DisjointFields(applied[1], applied[2])
    /\ NeitherBetter(applied[1], applied[2])

\* C6 as stated: A then B yields the same position, accuracy, altitude, speed,
\* course, battery and extra as B then A.
C6_Original ==
    MergedPair =>
        Data(RowAt(telemetry, <<1, 1>>)) = Data(RowOfOrder(applied[2], applied[1]))

\* C6 amended: A then B yields the same altitude, speed, course, battery and
\* extra as B then A; position and accuracy are those of the packet upserted
\* first in either order, so the two rows agree entirely when A and B carry the
\* same position and accuracy.
C6_MergeCommutesOnFields ==
    MergedPair =>
        LET ab == RowAt(telemetry, <<1, 1>>)
            ba == RowOfOrder(applied[2], applied[1])
        IN /\ \A f \in OptionalFields : ab[f] = ba[f]
           /\ ab.position = PointOf(applied[1]) /\ ab.accuracy = applied[1].accuracy
           /\ ba.position = PointOf(applied[2]) /\ ba.accuracy = applied[2].accuracy
           /\ (/\ PointOf(applied[1]) = PointOf(applied[2])
               /\ applied[1].accuracy = applied[2].accuracy) => Data(ab) = Data(ba)

C6_Witness ==
    /\ MergedPair
    /\ session[1].pc = "idle"
    /\ ~IsNull(applied[1].altitude)
    /\ ~IsNull(applied[2].speed)
    /\ PointOf(applied[1]) # PointOf(applied[2])
    /\ RowAt(telemetry, <<1, 1>>).altitude = applied[1].altitude
    /\ RowAt(telemetry, <<1, 1>>).speed = applied[2].speed
    /\ RowAt(telemetry, <<1, 1>>).position = PointOf(applied[1])

\* the non-null accuracies among the packets upserted so far
IncomingAccuracies ==
    {applied[i].accuracy[1] : i \in {j \in 1..Len(applied) : ~IsNull(applied[j].accuracy)}}

MinAccuracy == CHOOSE m \in IncomingAccuracies : \A x \in IncomingAccuracies : m <= x

\* the packets that supplied the minimum accuracy
Suppliers == {i \in 1..Len(applied) : applied[i].accuracy = Some(MinAccuracy)}

FirstSupplier == CHOOSE i \in Suppliers : \A j \in Suppliers : i <= j

\* C7 as stated: the row's accuracy is the minimum of the non-null incoming
\* accuracies, also when the first packet had none, and its position is that of
\* a packet that supplied it.
C7_Original ==
    (Len(applied) >= 1 /\ IncomingAccuracies # {}) =>
        LET r == RowAt(telemetry, <<1, 1>>)
        IN /\ r.accuracy = Some(MinAccuracy)
           /\ \E i \in Suppliers : r.position = PointOf(applied[i])

\* C7 amended: when the first packet of the key had a non-null accuracy, the
\* row's accuracy is the minimum of the non-null incoming accuracies and its
\* position is that of the earliest packet that supplied it; when the first
\* packet had a null accuracy, the row keeps a null accuracy and the first
\* packet's position.
C7_AccuracyMonotone ==
    Len(applied) >= 1 =>
        LET r == RowAt(telemetry, <<1, 1>>)
        IN IF IsNull(applied[1].accuracy)
           THEN r.accuracy = NULL /\ r.position = PointOf(applied[1])
           ELSE /\ r.accuracy = Some(MinAccuracy)
                /\ r.position = PointOf(applied[FirstSupplier])

C7_Witness ==
    /\ Len(applied) = 3
    /\ applied[1].accuracy = Some(50)
    /\ applied[2].accuracy = Some(10)
    /\ applied[3].accuracy = Some(50)
    /\ PointOf(applied[1]) # PointOf(applied[2])
    /\ RowAt(telemetry, <<1, 1>>).accuracy = Some(10)
    /\ RowAt(telemetry, <<1, 1>>).position = PointOf(applied[2])

----------------------------------------------------------------------------
(* Part II: properties of the subscription registry *)

\* the rooms that hold websocket ws
RoomsOf(rooms, ws) == {s \in DOMAIN rooms : ws \in rooms[s]}

\* C8: in every state the two maps agree: cell s is in socket_subscriptions[c]
\* exactly when c is in room_connections[s] (a missing key counting as an empty
\* set), whatever connects, updates, broadcasts and disconnects came before.
C8_RegistryConsistent ==
    \A c \in Conns, s \in Cells :
        s \in SubscriptionsOf(socket_subscriptions, c)
            <=> (s \in DOMAIN room_connections /\ c \in room_connections[s])

C8_Witness ==
    /\ torn # {}
    /\ listener.pc = "sending"
    /\ listener.disconnected_sockets # {}
    /\ \E c \in Conns :
         /\ c \notin torn
         /\ c \in DOMAIN socket_subscriptions
         /\ socket_subscriptions[c] = Cells
         /\ RoomsOf(room_connections, c) = Cells

\* C9 as stated: once disconnect(c) has completed, c is in no room and is not
\* a key of socket_subscriptions in any later state.
C9_Original ==
    \A c \in torn :
        /\ c \notin DOMAIN socket_subscriptions
        /\ RoomsOf(room_connections, c) = {}

\* C10: a call of update_subscriptions(conn, new_cells) from any reachable
\* state returns (new - old, old - new) and leaves socket_subscriptions[conn]
\* equal to new_cells, conn in exactly the rooms of new_cells and no empty room
\* as a key; the calls the handlers make leave the registry so.
C10_UpdateSubscriptionsExact ==
    /\ [](\A ws \in Conns, new_cells \in Viewports :
            handler[ws].pc \in {"receive", "fetch_initial"} =>
              LET old == SubscriptionsOf(socket_subscriptions, ws)
                  call == UpdateSubscriptions(Registry, ws, new_cells)
              IN /\ call.ret = <<new_cells \ old, old \ new_cells>>
                 /\ ws \in DOMAIN call.reg.socket_subscriptions
                 /\ call.reg.socket_subscriptions[ws] = new_cells
                 /\ RoomsOf(call.reg.room_connections, ws) = new_cells
                 /\ \A s \in DOMAIN call.reg.room_connections :
                      call.reg.room_connections[s] # {})
    /\ [][\A ws \in Conns :
            /\ (handler[ws].pc = "fetch_initial" /\ handler'[ws].pc = "reply"
                  /\ regState' # regState) =>
                 /\ socket_subscriptions'[ws] = handler[ws].cells
                 /\ RoomsOf(room_connections', ws) = handler[ws].cells
            /\ (handler[ws].pc = "receive" /\ handler'[ws].pc = "fetch_catchup") =>
                 /\ socket_subscriptions'[ws]
                      \ SubscriptionsOf(socket_subscriptions, ws) # {}
                 /\ RoomsOf(room_connections', ws) = socket_subscriptions'[ws]
            /\ \A s \in DOMAIN room_connections' : room_connections'[s] # {}]_vars

C10_Witness ==
    /\ handler[1].pc = "fetch_catchup"
    /\ handler[2].pc = "receive"
    /\ socket_subscriptions = (1 :> {2}) @@ (2 :> {1, 2})
    /\ room_connections = (1 :> {2}) @@ (2 :> {1, 2})

----------------------------------------------------------------------------
(* Part II: properties of the /ws handler and of the broadcast *)

\* C11 as stated: once a getInitialData request has been handled, whether the
\* history query returned or raised, the subscription set of the client is
\* the set of cells of the request.
C11_Original ==
    [][\A ws \in Conns :
         (handler[ws].pc = "fetch_initial" /\ handler'[ws].pc = "reply") =>
            SubscriptionsOf(socket_subscriptions', ws) = handler[ws].cells]_vars

\* C12: an updateViewport request sets the subscriptions of the client to the
\* cells of the new bbox at once; the catch-up query is made, and a reply
\* prepared, exactly when a cell was joined; the reply is catchUpPathSegments
\* when the query returns and error when it raises, and in both cases the
\* registry is left as the request set it.
C12_UpdateViewport ==
    /\ [][\A ws \in Conns :
            LET old == SubscriptionsOf(socket_subscriptions, ws)
                new == SubscriptionsOf(socket_subscriptions', ws)
            IN /\ (handler[ws].pc = "receive" /\ handler'[ws].pc = "fetch_catchup") =>
                    /\ handler'[ws].request = "updateViewport"
                    /\ new = handler'[ws].cells
                    /\ RoomsOf(room_connections', ws) = handler'[ws].cells
                    /\ new \ old # {}
               /\ (handler[ws].pc = "receive" /\ handler'[ws].pc = "receive") =>
                    /\ new \subseteq old
                    /\ RoomsOf(room_connections', ws) = new
                    /\ handler'[ws].response = "none"
               /\ (handler[ws].pc = "fetch_catchup" /\ handler'[ws].pc # "fetch_catchup") =>
                    /\ handler'[ws].pc = "reply"
                    /\ handler'[ws].response \in {"catchUpPathSegments", "error"}
                    /\ handler'[ws].cells = handler[ws].cells
                    /\ regState' = regState]_vars
    /\ [](\A ws \in Conns :
            handler[ws].response = "catchUpPathSegments" =>
               handler[ws].pc = "reply" /\ handler[ws].request = "updateViewport")

C12_Witness ==
    \E ws \in Conns :
        /\ handler[ws].pc = "reply"
        /\ handler[ws].request = "updateViewport"
        /\ handler[ws].response = "error"
        /\ handler[ws].cells = Cells
        /\ client[ws] = "open"
        /\ ws \in DOMAIN socket_subscriptions
        /\ socket_subscriptions[ws] = Cells
        /\ RoomsOf(room_connections, ws) = Cells

\* a step of the broadcast that sends the message to ws
SendsTo(ws) ==
    /\ listener.pc = "sending"
    /\ listener'.pc = "sending"
    /\ ws \in listener.sockets_in_room
    /\ ws \notin listener'.sockets_in_room

\* C13, its first half: the sends of a broadcast go to the connections that
\* were in the room of the event's cell when the broadcast began, to each of
\* them and to no other, a failed send stopping nothing.
BroadcastReachesRoom ==
    /\ [][(listener.pc = "listening" /\ listener'.pc = "sending") =>
            /\ listener'.cell_id \in DOMAIN room_connections
            /\ listener'.snapshot = room_connections[listener'.cell_id]
            /\ listener'.sockets_in_room = listener'.snapshot]_vars
    /\ [][\A ws \in Conns : SendsTo(ws) =>
            /\ ws \in listener.snapshot
            /\ listener'.snapshot = listener.snapshot
            /\ ws \in listener'.delivered <=> client[ws] = "open"
            /\ ws \in listener'.disconnected_sockets <=> client[ws] # "open"]_vars
    /\ [][(listener.pc = "sending" /\ listener'.pc = "listening") =>
            /\ listener.sockets_in_room = {}
            /\ listener.delivered \cup listener.disconnected_sockets
                 = listener.snapshot]_vars
    /\ [](listener.pc = "sending" =>
            /\ listener.sockets_in_room \cup listener.delivered
                 \cup listener.disconnected_sockets = listener.snapshot
            /\ listener.delivered \cap listener.disconnected_sockets = {}
            /\ listener.sockets_in_room
                 \cap (listener.delivered \cup listener.disconnected_sockets) = {})

\* C13 as stated: the first half, and no newPosition of a cell reaches a client
\* that is not subscribed to the cell when it is sent.
C13_Original ==
    /\ BroadcastReachesRoom
    /\ [][\A ws \in Conns : (SendsTo(ws) /\ client[ws] = "open") =>
            listener.cell_id \in SubscriptionsOf(socket_subscriptions, ws)]_vars

\* C13 amended: the first half as stated; a client is sent the events of cell
\* X whose broadcast began while it was subscribed to X, so none of a
\* broadcast that began when it was not, while a broadcast that began before
\* its viewport update left X may still reach it after the update.
C13_BroadcastToSnapshot ==
    /\ BroadcastReachesRoom
    /\ [][\A ws \in Conns : SendsTo(ws) =>
            \/ listener.cell_id \in SubscriptionsOf(socket_subscriptions, ws)
            \/ ws \in listener.snapshot]_vars

C13_Witness ==
    \E ws \in Conns :
        /\ listener.pc = "sending"
        /\ ws \in listener.delivered
        /\ ws \notin torn
        /\ ws \in DOMAIN socket_subscriptions
        /\ listener.cell_id \notin socket_subscriptions[ws]
        /\ listener.snapshot = Conns

----------------------------------------------------------------------------
(* Part III: properties of the worker fabric *)

\* the envelope a row of raw_messages was written from
EnvelopeOf(r) == envelope[r.raw_data]

\* the data_time a message is processed to: that of its packet, or the
\* timestamp of the message when the packet is stamped later than that
ProcessedTime(v) ==
    IF v.timestamp # 0 /\ v.data_time > v.timestamp THEN v.timestamp ELSE v.data_time

\* the telemetry row of id tid is that of v: of the payload of v's callsign, at
\* v's processed data_time
TelemetryOf(tid, v) ==
    \E t \in telemetry :
        /\ t.id = tid
        /\ t.data_time = ProcessedTime(v)
        /\ \E pr \in payloads : pr.id = t.payload_id /\ pr.callsign = v.callsign

Over(e) == task[e].pc \in {"done", "failed"}

\* the rows of raw_messages written from envelope e
RawRowsOf(e) == {r \in raw_messages : r.raw_data = e}

\* C15: the raw message is persisted before any decoding. Every well-formed
\* envelope handed to a protocol worker while the database is up has its row
\* of raw_messages once its task is over; when its payload does not decode the
\* row has telemetry_id NULL, its task has upserted no telemetry row and no
\* event is queued or published for it.
C15_Original ==
    \A e \in Envelopes :
        (Over(e) /\ envelope[e].kind # "malformed"
                 /\ task[e].error # "SQLAlchemyError") =>
           /\ RawRowsOf(e) # {}
           /\ envelope[e].kind = "undecodable" =>
                 /\ \A r \in RawRowsOf(e) : IsNull(r.telemetry_id)
                 /\ task[e].telemetry_id = 0
                 /\ Len(publish_queue) + Len(channel) <=
                      Cardinality({d \in Envelopes \ {e} : task[d].was_inserted})

\* the upsert of the task of envelope e returns in this step
UpsertReturns(e) == task[e].pc = "upload" /\ task'[e].pc = "update_raw"

\* the task of envelope e hands its position event to the publisher in this step
QueuesEvent(e) ==
    /\ Len(publish_queue') = Len(publish_queue) + 1
    /\ SubSeq(publish_queue', 1, Len(publish_queue)) = publish_queue
    /\ LET result_data == publish_queue'[Len(publish_queue')].result_data
       IN /\ result_data.telemetry_id = task'[e].telemetry_id
          /\ result_data.payload_id = task'[e].payload_id
          /\ result_data.lat = Latitude(envelope[e].callsign)
          /\ result_data.lon = Longitude(envelope[e].callsign)
          /\ result_data.ts = ProcessedTime(envelope[e])

C17_Original ==
    /\ [](/\ \A r, q \in payloads : r.callsign = q.callsign => r = q
          /\ \A e, d \in Envelopes :
                (/\ envelope[e].callsign = envelope[d].callsign
                 /\ task[e].payload_id # 0 /\ task[d].payload_id # 0) =>
                   task[e].payload_id = task[d].payload_id
          /\ \A e \in Envelopes : task[e].error # "IntegrityError")
    /\ [][payloads \subseteq payloads']_vars

\* the step kind was taken on envelope e
Logged(kind, e) == \E i \in DOMAIN trace : trace[i] = <<kind, e>>

Pos(kind, e) == CHOOSE i \in DOMAIN trace : trace[i] = <<kind, e>>

\* both envelopes had the step, e1 first
Before(kind, e1, e2) ==
    (Logged(kind, e1) /\ Logged(kind, e2)) => Pos(kind, e1) < Pos(kind, e2)

\* e1 was appended to the list that e2 was appended to later: the ingress
\* routes number the envelopes in the order of their arrival
SameListInOrder(e1, e2) ==
    /\ e1 < e2
    /\ envelope[e2] # NoEnvelope
    /\ envelope[e1].transport = envelope[e2].transport

\* envelope e has left its list
Popped(e) == task[e].pc \notin {"absent", "listed"}

\* the envelopes of a list leave it, reach the Celery queue and are started
\* in the order in which they were appended
DispatchedInOrder ==
    \A e1, e2 \in Envelopes : SameListInOrder(e1, e2) =>
        /\ Popped(e2) => Popped(e1)
        /\ Before("dispatched", e1, e2)
        /\ Before("started", e1, e2)
        /\ (Logged("started", e2) /\ Logged("dispatched", e1)) => Logged("started", e1)

Running(e) == task[e].pc \in {"persisted", "insert_payload", "upload", "update_raw"}

BadInput == {"ValidationError", "DecodeError"}

\* C20: a worker task that fails on a transient error (the database is not
\* available) is run again, and is given up only after its third attempt; a
\* task that fails on bad input is dropped after its first.
C20_Original ==
    \A e \in Envelopes : task[e].pc = "failed" =>
        /\ task[e].error \in BadInput => task[e].runs = 1
        /\ task[e].error = "SQLAlchemyError" => task[e].runs = 3

\* the lists the watcher and the workers write to besides the Celery queues:
\* there is none, a failed task leaves its envelope nowhere
DeadLetters == {}

\* envelope e is still somewhere: on its list, in its Celery queue, in a task
\* that runs, or in a row of raw_messages
Traced(e) ==
    \/ \E t \in Transports : \E i \in DOMAIN work_list[t] : work_list[t][i] = e
    \/ \E t \in Transports : \E i \in DOMAIN celery_queue[t] : celery_queue[t][i] = e
    \/ Running(e)
    \/ RawRowsOf(e) # {}

\* C21: an envelope whose processing has failed for good on a transient
\* error (the database or the broker is not available) is on a dead-letter
\* list with its last error; no envelope disappears without a trace.
C21_Original ==
    \A e \in Envelopes :
        /\ (task[e].pc = "failed" /\ task[e].error = "SQLAlchemyError") =>
              \E d \in DeadLetters : d.envelope = e /\ d.error = task[e].error
        /\ task[e].pc = "lost" => \E d \in DeadLetters : d.envelope = e
        /\ (envelope[e] # NoEnvelope /\ task[e].pc # "done") => Traced(e)

----------------------------------------------------------------------------
(* Part IV: properties of the path generator *)

\* a manual path request is handled in this step
ManualHandled ==
    /\ queue_path_gen # <<>>
    /\ Head(queue_path_gen) = "handle_manual_path_request"
    /\ queue_path_gen' = Tail(queue_path_gen)

\* C22: an envelope on the get_path list is routed to a handler that does
\* what the scheduled run does: the step that handles a manual request leaves
\* the materialized path view refreshed from the stored telemetry.
C22_Original == [][ManualHandled => mv_payload_path_segments' = PathSegments(telemetry)]_vars

----------------------------------------------------------------------------
(* Part V: properties of the ingress routes *)

\* the step appends one envelope to the work list of the transport
Appended(transport) ==
    \E e \in Envelopes : work_list'[transport] = Append(work_list[transport], e)

\* the step is a post that was answered
Answered == request' # request \/ response' # response

RejectedToken ==
    /\ Answered
    /\ request'.route = "iridium"
    /\ request'.JWT # "verified"

\* C24: a post to /iridium whose token fails verification is answered 401 and
\* changes neither a work list nor anything behind the lists, and an envelope
\* is appended to the iridium list only by a post whose token verified.
C24_TokenGate ==
    [][/\ RejectedToken => (response'.status = 401 /\ UNCHANGED pipeVars)
       /\ Appended("iridium") => (request'.route = "iridium" /\ request'.JWT = "verified")]_vars

\* a post with a bad signature was answered 401 while the iridium list was in use
C24_Witness ==
    /\ request = [route |-> "iridium", JWT |-> "bad_signature"]
    /\ response.status = 401
    /\ work_list["iridium"] # <<>>

----------------------------------------------------------------------------
(* Part VI: properties of getTelemetry and of the messages that raise *)

\* the step is the return of the telemetry query of ws with telemetryResponse
QueryAnswered(ws) ==
    /\ handler[ws].pc = "fetch_telemetry"
    /\ handler'[ws].pc = "reply"
    /\ handler'[ws].response = "telemetryResponse"

\* C25: when the query made on a cache miss returns, its result, the row or
\* null, is the telemetry of the reply and is in the cache under the key of the
\* request, so that an identical request within the TTL makes no query.
C25_Original ==
    [][\A ws \in Conns :
         QueryAnswered(ws) =>
           /\ lookup'[ws].telemetry_data_dict
                  = FetchTelemetryData(telemetry, lookup[ws].cache_key)
           /\ lookup[ws].cache_key \in DOMAIN cache'
           /\ cache'[lookup[ws].cache_key] = lookup'[ws].telemetry_data_dict]_vars

\* the handler of ws is about to answer a message with an error
ErrorInHand(ws) ==
    /\ handler[ws].pc \in {"reply", "reply_break"}
    /\ handler[ws].response = "error"

\* C26: a handler that answers a message with an error, on a socket that is not
\* faulted, goes back to receiving with the websocket still registered.
C26_Original ==
    [][\A ws \in Conns :
         (ErrorInHand(ws) /\ client[ws] = "open" /\ handler'[ws] # handler[ws]) =>
           /\ handler'[ws].pc = "receive"
           /\ ws \in active_connections']_vars

----------------------------------------------------------------------------
(* Part VII: properties of the normalizer *)

RequiredSound(data) ==
    /\ data.call_ok
    /\ ParseCoordinate(data.lat, "lat").ok
    /\ ParseCoordinate(data.lon, "lon").ok

\* the step normalizes a payload and does not fail on data_time or the database
Normalized ==
    /\ lora_task' # lora_task
    /\ lora_task'.error \in {"none", "AttributeError: callsign"}

\* C28: a payload whose required fields are sound is stored as a telemetry row
\* whatever its optional fields are: an optional field that is not valid (a
\* negative battery, a course out of range) is left out of the row, and the
\* packet is not dropped.
C28_Original ==
    [][(Normalized /\ RequiredSound(lora_task'.payload[1])) =>
         /\ lora_task'.error = "none"
         /\ \E t \in telemetry' :
              /\ RowKey(t) = <<1, lora_task'.payload[1].data_time>>
              /\ ~ValidateCourse(lora_task'.payload[1].course).ok => t.course = NULL
              /\ ~NormalizeVoltage(lora_task'.payload[1].battery).ok => t.battery = NULL]_vars

----------------------------------------------------------------------------
(* Part VIII: properties of the legacy MQTT services *)

\* the step handles a message of the topic
Handled(topic) == mqtt' # mqtt /\ mqtt'.topic = topic

\* latitude within [-90, 90] and longitude within [-180, 180]
InRange(latitude, longitude) ==
    /\ 0 - 900000 <= latitude /\ latitude <= 900000
    /\ 0 - 1800000 <= longitude /\ longitude <= 1800000

\* C29: for a message on balloons/telemetry store_telemetry is called once when
\* the message is valid JSON, has every field, has a latitude within [-90, 90]
\* and a longitude within [-180, 180], and no row of its (id, timestamp) is
\* stored; it is not called for any other message.
C29_Original ==
    [][Handled("balloons/telemetry") =>
         LET payload == mqtt'.payload
             storable ==
                 /\ payload.json_ok
                 /\ payload.complete
                 /\ InRange(payload.lat, payload.lon)
                 /\ ~\E r \in supabase.telemetry :
                       r.id = payload.id /\ r.timestamp = mqtt'.timestamp
         IN mqtt'.calls = IF storable THEN 1 ELSE 0]_vars

\* C30: a message on stations/data that is valid JSON with a latitude within
\* [-90, 90] and a longitude within [-180, 180], such as -118.2437, adds one
\* row with the received fields to the stations table; a message that is not
\* valid JSON or has a latitude out of range adds none.
C30_Original ==
    [][(Handled("stations/data") /\ mqtt'.db_ok) =>
         LET payload == mqtt'.payload
             accepted ==
                 /\ payload.json_ok
                 /\ payload.complete
                 /\ InRange(payload.latitude, payload.longitude)
         IN IF accepted
            THEN /\ Len(supabase'.stations) = Len(supabase.stations) + 1
                 /\ supabase'.stations[Len(supabase'.stations)].latitude = payload.latitude
                 /\ supabase'.stations[Len(supabase'.stations)].longitude = payload.longitude
                 /\ supabase'.stations[Len(supabase'.stations)].station_id = payload.station_id
            ELSE supabase'.stations = supabase.stations]_vars

----------------------------------------------------------------------------
(* Part II: further properties of the broadcast and of disconnect *)

\* the step is a send of the broadcast in progress
BroadcastSends == listener.pc = "sending" /\ listener'.pc = "sending" /\ listener' # listener

\* the step is the return of broadcast_to_room
BroadcastReturns == listener.pc = "sending" /\ listener'.pc = "listening"

\* websocket ws is in no room and has no subscription entry
Removed(rooms, subs, ws) ==
    /\ ws \notin DOMAIN subs
    /\ \A cell_id \in DOMAIN rooms : ws \notin rooms[cell_id]

\* C31: a broadcast sends to every socket of the copy of the room, whether or
\* not an earlier send failed, changes the registry in no step of the
\* iteration, and when it returns every socket whose send failed is in no room
\* and has no subscription entry, also when the handler of one of them has
\* disconnected it while the broadcast was in progress.
C31_Original ==
    [][/\ BroadcastSends => UNCHANGED regState
       /\ BroadcastReturns =>
            /\ listener.delivered \cup listener.disconnected_sockets = listener.snapshot
            /\ \A ws \in listener.disconnected_sockets :
                 Removed(room_connections', socket_subscriptions', ws)]_vars

\* the handler of ws, in its finally clause, calls disconnect for a websocket
\* on which a disconnect has completed before
DisconnectsAgain(ws) ==
    /\ ws \in torn
    /\ handler[ws].pc = "receive"
    /\ handler'[ws].pc \in {"closed", "crashed"}

\* C33: disconnect of a websocket that was disconnected before (by a failed
\* send of send_personal_message or of broadcast_to_room) returns without
\* raising and leaves room_connections, socket_subscriptions and
\* active_connections as they were.
C33_Original ==
    [][\A ws \in Conns :
         DisconnectsAgain(ws) => (handler'[ws].pc = "closed" /\ UNCHANGED regState)]_vars

\* the step is the start of the broadcast of an event of the cell
BroadcastBegins(cell_id) ==
    /\ listener.pc = "listening"
    /\ listener' # listener
    /\ listener'.cell_id = cell_id

\* C34: an event of a cell of the requested bbox that is broadcast after the
\* history query of a getInitialData was issued, while the client is connected,
\* is sent to that client: the client is in the copy of the room the broadcast
\* iterates over.
C34_Original ==
    [][\A ws \in Conns, cell_id \in Cells :
         (/\ handler[ws].pc = "fetch_initial"
          /\ cell_id \in handler[ws].cells
          /\ client[ws] = "open"
          /\ BroadcastBegins(cell_id)) => ws \in listener'.snapshot]_vars

----------------------------------------------------------------------------
(* Part III: further properties of the worker fabric *)

\* the task of envelope e has upserted its telemetry
Upserted(e) == task[e].pc \in {"update_raw", "done", "failed"} /\ task[e].telemetry_id # 0

Listed(lists, e) ==
    \E t \in Transports : \E i \in DOMAIN lists[t] : lists[t][i] = e

\* the number of places of the Celery queues that hold envelope e
Handed(queues, e) ==
    Cardinality({<<t, i>> \in Transports \X (1..Cardinality(Envelopes)) :
                    i \in DOMAIN queues[t] /\ queues[t][i] = e})

\* the blocking pop takes envelope e off its work list in this step
PoppedOff(e) == Listed(work_list, e) /\ ~Listed(work_list', e)

\* C35: no envelope is lost by the dispatcher: every envelope the blocking
\* pop removes from a work list is handed to exactly one worker task, and
\* when the hand-off fails after the pop the envelope is not dropped.
C35_Original ==
    [][\A e \in Envelopes :
         PoppedOff(e) => /\ Handed(celery_queue', e) = 1
                         /\ task'[e].pc = "queued"]_vars

\* raw data waits on the list
WaitsOn(list_name, raw_data) == raw_data \in Elements(watch_list[list_name])

\* C36: no list can starve another: under a fair dispatcher, an envelope
\* that waits on any watched list (aprs, iridium, lora, predict_flight,
\* get_path) is eventually taken off it and dispatched, even while the other
\* lists keep receiving new envelopes.
C36_Original ==
    \A list_name \in WatchedLists, raw_data \in RawData :
        WaitsOn(list_name, raw_data) ~> ~WaitsOn(list_name, raw_data)

\* the conflict key of the telemetry row a published event stands for
EventKey(m) == <<m.result_data.payload_id, m.result_data.ts>>

\* two tasks have upserted the same telemetry row
SameRow(e1, e2) ==
    /\ e1 # e2
    /\ Upserted(e1)
    /\ Upserted(e2)
    /\ task[e1].payload_id = task[e2].payload_id
    /\ task[e1].data_time = task[e2].data_time

----------------------------------------------------------------------------
(* Part VI: further properties of the telemetry cache *)

\* the getTelemetry branch of websocket ws answers from the cache in this step
CacheHit(ws) ==
    /\ handler[ws].pc = "receive"
    /\ handler'[ws].pc = "reply"
    /\ handler'[ws].request = "getTelemetry"
    /\ handler'[ws].response = "telemetryResponse"

\* C38: telemetry cache coherence: a value served from the cache for the key
\* telemetry:{payloadId}:{timestamp} equals the current telemetry row of that
\* key; after an upsert has merged fields into the row, no getTelemetry
\* request is answered with the values from before the merge.
C38_Original ==
    [][\A ws \in Conns :
         CacheHit(ws) =>
           lookup'[ws].telemetry_data_dict =
             FetchTelemetryData(telemetry', lookup'[ws].cache_key)]_vars

----------------------------------------------------------------------------
(* Part X: properties of the legacy deduplication *)

\* C39: legacy deduplication: under every interleaving of the MQTT and the
\* APRS ingestion handlers on messages with the same (id, timestamp), at most
\* one telemetry record is stored for that (id, timestamp).
C39_Original ==
    \A i, j \in DOMAIN telemetry_table :
        (/\ telemetry_table[i].id = telemetry_table[j].id
         /\ telemetry_table[i].timestamp = telemetry_table[j].timestamp) => i = j

====
